---- MODULE Spec2Model ----
(***************************************************************************)
(* Verification model of the ClawdBody VM provisioning orchestrator:       *)
(*   - the hosted-VM (Orgo) API client: name disambiguation, readiness     *)
(*     polling;                                                            *)
(*   - the AWS resource lifecycle manager: instance creation with image    *)
(*     sharing, key pair cleanup, termination;                             *)
(*   - the SSH remote command executor and the gateway start sequence;     *)
(*   - the persisted SetupState record and the endpoints that write it.    *)
(* Each component has its own specification over its own variables; the    *)
(* variables of the other components stay at their initial values.         *)
(***************************************************************************)
EXTENDS Integers, Sequences, FiniteSets, TLC

VARIABLES
    \* ---- OrgoClient.ensureUniqueComputerName ----
    listing,        \* names of the computers the project listing returns
    listFails,      \* TRUE when listComputers throws
    projectLookup,  \* the projectId / projectName arguments and the answer
                    \* of listProjects, as getProjectName meets them
    desiredName,    \* the desiredName argument
    dateNow,        \* millisecond part of the value Date.now() returns
    namePc,         \* "call", "loop" (in the while loop), "returned"
    existingNames,  \* the Set of lower-cased existing names
    counter,        \* the loop counter
    uniqueName      \* the candidate name; the returned name at "returned"

nameVars == <<listing, listFails, projectLookup, desiredName, dateNow, namePc,
              existingNames, counter, uniqueName>>

VARIABLES
    \* ---- OrgoClient.waitForReady ----
    maxAttempts,                \* the maxAttempts argument
    wfPc,                       \* "grace", "poll", "sleep", "done"
    wfI,                        \* the loop index i
    lastError,                  \* lastError: a message, or NoError
    consecutiveNotFoundErrors,
    wfResult,                   \* "pending", "returned" or "threw"
    wfThrown,                   \* the message of the error thrown
    wfClock,                    \* milliseconds since the call
    wfQueries,                  \* status queries issued so far
    wfFirstQueryAt,             \* the clock at the first query, -1 before it
    wfNotFound,                 \* not-found responses received so far
    wfOnlyNotFound,             \* every response so far was a not-found
    wfLastStatus,               \* the status the last query reported:
                                \* "none" before it, "error" for an error
    wfRun                       \* not-found responses received since the
                                \* last response of another kind

waitVars == <<maxAttempts, wfPc, wfI, lastError, consecutiveNotFoundErrors,
              wfResult, wfThrown, wfClock, wfQueries, wfFirstQueryAt,
              wfNotFound, wfOnlyNotFound, wfLastStatus, wfRun>>

VARIABLES
    \* ---- AWSClient: the account as EC2 holds it ----
    customAmiId,        \* TRUE when CLAWDBODY_AWS_CUSTOM_AMI_ID is set
    adminCredentials,   \* TRUE when the admin key id and secret are set
    amiShared,          \* the custom image grants launch to the user's account
    wasShared,          \* amiShared when createInstance was called
    keyPairs,           \* names of the key pairs of the account
    instanceState,      \* "none", "running" or "terminated"
    instanceKeyName,    \* the KeyName of the instance, or NoKey
    \* ---- AWSClient.createInstance ----
    ciPc,               \* "share", "prepare", "launch", "retryShare",
                        \* "retryLaunch", "cleanup", "wait", "done"
    preShareCalls,      \* shareAMIWithAccount calls before the launch
    postShareCalls,     \* shareAMIWithAccount calls after a refused launch
    runCalls,           \* RunInstances requests sent
    launchError,        \* the error the first launch was caught with
    ciResult,           \* "pending", "returned" or "threw"
    ciThrown,           \* the error that reaches the caller
    cleanupCalls,       \* DeleteKeyPair requests sent by the cleanup
    cleanupDone,        \* the cleanup's DeleteKeyPair request succeeded
    \* ---- AWSClient.terminateInstanceWithCleanup ----
    tcPc,               \* "lookup", "terminate", "deleteKey", "done"
    tcCall,             \* the number of the call: 1, 2, ...
    keyName,            \* let keyName
    terminated,         \* let terminated
    keyPairDeleted,     \* let keyPairDeleted
    errors,             \* const errors
    tcLookup,           \* how getInstance answered in this call
    tcTerminate,        \* how TerminateInstances answered in this call
    tcDelete            \* how DeleteKeyPair answered in this call

ec2Vars == <<customAmiId, adminCredentials, amiShared, wasShared, keyPairs,
             instanceState, instanceKeyName,
             ciPc, preShareCalls, postShareCalls, runCalls, launchError,
             ciResult, ciThrown, cleanupCalls, cleanupDone,
             tcPc, tcCall, keyName, terminated, keyPairDeleted, errors,
             tcLookup, tcTerminate, tcDelete>>

VARIABLES
    \* ---- AWSVMSetup.runCommand ----
    retries,        \* the retries argument
    rcPc,           \* "attempt", "backoff", "done"
    attempt,        \* the loop variable
    sshConnected,   \* this.sshConnected
    sshClient,      \* TRUE when this.sshClient is set
    publicIp,       \* TRUE when this.publicIp is set
    rcHistory,      \* what each attempt met, in order
    rcWaits,        \* the backoff waits slept, in order
    rcClock,        \* milliseconds slept since the call
    rcOutput,       \* the output field of the result
    rcSuccess,      \* the success field of the result
    rcCalls,        \* runCommand calls made so far on this executor
    connection,     \* serial number of the client object, 0 when none
    rcConns,        \* the client each attempt of the call worked with
    erroredConnections, \* the clients that have reported an error
    closedConnections,  \* the clients disconnectSSH has ended
    ranOnErrored    \* TRUE once exec was called on a client that had
                    \* reported an error

sshVars == <<retries, rcPc, attempt, sshConnected, sshClient, publicIp,
             rcHistory, rcWaits, rcClock, rcOutput, rcSuccess, rcCalls,
             connection, rcConns, erroredConnections, closedConnections,
             ranOnErrored>>

VARIABLES
    \* ---- the gateway start of AWSVMSetup and the machine it acts on ----
    gwKind,         \* "clawdbot" (startClawdbotGateway) or "openclaw"
    gwPc,           \* "prepare", "stop", "start", "check", "done"
    oldGateway,     \* the gateway found on the machine: "none", "running",
                    \* or "stopping" (signalled, not yet gone)
    newGateway,     \* the gateway this call starts: "none", "starting",
                    \* "listening" or "exited"
    portOwner,      \* who listens on 18789: "none", "old" or "new"
    oldAtStart,     \* oldGateway when the start command was issued
    gwCheck,        \* the loop variable of the verification loop
    isRunning,      \* let isRunning
    gwResult,       \* "pending", "true" or "false": the value returned
    gwSawProcess,   \* the last check printed PROCESS_EXISTS
    gwSawPort,      \* the last check printed PORT_LISTENING
    gwWaits,        \* 5 s waits slept between the checks
    gwLogFetched    \* the tail of the gateway's log was fetched

gwVars == <<gwKind, gwPc, oldGateway, newGateway, portOwner, oldAtStart,
            gwCheck, isRunning, gwResult, gwSawProcess, gwSawPort, gwWaits,
            gwLogFetched>>

VARIABLES
    \* ---- the configuration run on one machine ----
    runNo,              \* 1 for the first run, 2 for the run after the interruption
    setupPc,            \* the step about to run: "python", "sdk", "clawdbot",
                        \* "configure", "gateway"; or "done", "failed"
    pythonInstalled,    \* python3 and the tools are on the machine
    nodeInstalled,      \* nvm and Node.js 22 are on the machine
    clawdbotVersion,    \* the installed clawdbot version, 0 for none
    latestVersion,      \* what clawdbot@latest resolves to
    configWrites,       \* how many times clawdbot.json was written
    commandsSent,       \* remote commands issued by the steps of this run
    installsRepeated    \* install steps run on a machine that had them

setupVars == <<runNo, setupPc, pythonInstalled, nodeInstalled, clawdbotVersion,
               latestVersion, configWrites, commandsSent, installsRepeated>>

VARIABLES
    \* ---- the SetupState row of one user ----
    recExists,      \* the row exists
    setupState,     \* its fields
    envOrgoKey,     \* process.env.ORGO_API_KEY is set
    lastOp,         \* the operation that ran last
    response,       \* the HTTP status it answered with, 0 for none
    remoteExists,   \* the provider still has the machine the row names
    deleteAnswer    \* what the provider answered to the delete of the last
                    \* operation: "none", "deleted", "notFound" or "failed"

recVars == <<recExists, setupState, envOrgoKey, lastOp, response,
             remoteExists, deleteAnswer>>

VARIABLES
    \* ---- OrgoClient.createComputerWithUniqueName ----
    ccPc,           \* "idle", "resolve", "retryResolve" or "done"
    createRequests, \* the names of the create requests sent, in order
    createAnswers,  \* what the provider answered to each
    ccReturned,     \* the call returned the created computer
    ccThrown        \* the error the call threw, empty for none

ccVars == <<ccPc, createRequests, createAnswers, ccReturned, ccThrown>>

VARIABLES
    \* ---- OrgoClient.request ----
    timeoutOverrideMs,  \* the timeoutOverrideMs argument, 0 for undefined
    reqPc,              \* "fetch" (awaiting fetch), "body" (awaiting
                        \* response.text()), "done"
    timerArmed,         \* the abort timer is set and not cleared
    responseOk,         \* response.ok
    reqClock,           \* milliseconds since the call
    reqOutcome          \* "pending", "returned", "providerError", "timedOut"
                        \* or "networkError"

reqVars == <<timeoutOverrideMs, reqPc, timerArmed, responseOk, reqClock,
             reqOutcome>>

VARIABLES
    \* ---- the computer operations of OrgoClient and OrgoAdapter ----
    idClient,       \* "OrgoClient" or "OrgoAdapter"
    idOperation,    \* the operation called
    computerId,     \* the identifier X, a sequence of characters
    pathPlain,      \* the path built for X, empty before the call
    pathPrefixed    \* the path built for "orgo-" + X, empty before the call

idVars == <<idClient, idOperation, computerId, pathPlain, pathPrefixed>>

VARIABLES
    \* ---- the write of the agent configuration document ----
    cfgStep,          \* "none", "clawdbot" or "openclaw": the setup writing
    cfgPc,            \* "idle", "start", "open", "written", "lost"
    fileExists,       \* TRUE when the configuration path names a file
    fileContent,      \* what the file at the configuration path holds
    previousDocument, \* the document there before the write, empty if none
    newDocument       \* the document being written

cfgVars == <<cfgStep, cfgPc, fileExists, fileContent, previousDocument,
             newDocument>>

VARIABLES
    \* ---- POST deploy (Pro) and deployProVM, for one user ----
    dpPc,           \* where each request is
    dpStatus,       \* setupState.status of the user
    dpErrorMessage, \* TRUE when setupState.errorMessage is set
    dpVmRows,       \* VM rows of the user in a live status
    dpLaunched,     \* instances launched by the requests
    dpFailure,      \* why createInstance failed in each request
    dpResponse      \* what each request answered

dpVars == <<dpPc, dpStatus, dpErrorMessage, dpVmRows, dpLaunched, dpFailure,
            dpResponse>>

VARIABLES
    \* ---- getOrCreateSecurityGroup, in concurrent createInstance runs ----
    sgPc,         \* where each run is
    groupExists,  \* the account has the security group clawdbot-vm-sg
    groupRules,   \* the group has its ingress rules
    sgRejected,   \* the run's creation call was rejected as a duplicate
    sgThrown      \* the error that left createInstance in each run

sgVars == <<sgPc, groupExists, groupRules, sgRejected, sgThrown>>

VARIABLES
    \* ---- the machine as the setup operations leave it ----
    bashrc,       \* the lines of ~/.bashrc
    crontab,      \* the lines of the user's crontab
    cronWorks,    \* crontab can be installed on this machine
    syncDaemons,  \* vault-sync-daemon.sh processes running
    setupOp,      \* the operation run last, "none" before the first
    opsRun,       \* operations run so far
    runsInARow,   \* how many times in succession setupOp has just run
    afterOnce     \* the machine after the first of these runs

imVars == <<bashrc, crontab, cronWorks, syncDaemons, setupOp, opsRun,
            runsInARow, afterOnce>>

VARIABLES
    \* ---- the gateway token of setupClawdbotTelegram / setupOpenClawTelegram ----
    tkStep,        \* "clawdbot" or "openclaw": the setup that runs
    tkPc,          \* "generate", "write", "done"
    tokenResult,   \* what runCommand('openssl rand -hex n') returned
    tkNow,         \* Date.now(), as its digits
    gatewayToken,  \* const gatewayToken
    configToken    \* the token in the configuration document

tkVars == <<tkStep, tkPc, tokenResult, tkNow, gatewayToken, configToken>>

vars == <<nameVars, waitVars, ec2Vars, sshVars, gwVars, setupVars, recVars,
          ccVars, reqVars, idVars, cfgVars, dpVars, sgVars, imVars, tkVars>>

\* the variables each component leaves alone
OutsideName == <<waitVars, ec2Vars, sshVars, gwVars, setupVars, recVars,
                 ccVars, reqVars, idVars, cfgVars, dpVars, sgVars, imVars,
                 tkVars>>
OutsideWait == <<nameVars, ec2Vars, sshVars, gwVars, setupVars, recVars,
                 ccVars, reqVars, idVars, cfgVars, dpVars, sgVars, imVars,
                 tkVars>>
OutsideEc2 == <<nameVars, waitVars, sshVars, gwVars, setupVars, recVars,
                ccVars, reqVars, idVars, cfgVars, dpVars, sgVars, imVars,
                tkVars>>
OutsideSsh == <<nameVars, waitVars, ec2Vars, gwVars, setupVars, recVars,
                ccVars, reqVars, idVars, cfgVars, dpVars, sgVars, imVars,
                tkVars>>
OutsideGateway == <<nameVars, waitVars, ec2Vars, sshVars, setupVars,
                    recVars, ccVars, reqVars, idVars, cfgVars, dpVars,
                    sgVars, imVars, tkVars>>
OutsideSetup == <<nameVars, waitVars, ec2Vars, sshVars, gwVars, recVars,
                  ccVars, reqVars, idVars, cfgVars, dpVars, sgVars, imVars,
                  tkVars>>
OutsideRecord == <<nameVars, waitVars, ec2Vars, sshVars, gwVars, setupVars,
                   ccVars, reqVars, idVars, cfgVars, dpVars, sgVars,
                   imVars, tkVars>>
OutsideCreateComputer == <<waitVars, ec2Vars, sshVars, gwVars, setupVars,
                           recVars, reqVars, idVars, cfgVars, dpVars,
                           sgVars, imVars, tkVars>>
OutsideRequest == <<nameVars, waitVars, ec2Vars, sshVars, gwVars,
                    setupVars, recVars, ccVars, idVars, cfgVars, dpVars,
                    sgVars, imVars, tkVars>>
OutsideIds == <<nameVars, waitVars, ec2Vars, sshVars, gwVars, setupVars,
                recVars, ccVars, reqVars, cfgVars, dpVars, sgVars, imVars,
                tkVars>>
OutsideConfig == <<nameVars, waitVars, ec2Vars, sshVars, gwVars, setupVars,
                   recVars, ccVars, reqVars, idVars, dpVars, sgVars,
                   imVars, tkVars>>
OutsideDeploy == <<nameVars, waitVars, ec2Vars, sshVars, gwVars, setupVars,
                   recVars, ccVars, reqVars, idVars, cfgVars, sgVars,
                   imVars, tkVars>>
OutsideGroup == <<nameVars, waitVars, ec2Vars, sshVars, gwVars, setupVars,
                  recVars, ccVars, reqVars, idVars, cfgVars, dpVars,
                  imVars, tkVars>>
OutsideMachine == <<nameVars, waitVars, ec2Vars, sshVars, gwVars,
                    setupVars, recVars, ccVars, reqVars, idVars, cfgVars,
                    dpVars, sgVars, tkVars>>
OutsideToken == <<nameVars, waitVars, ec2Vars, sshVars, gwVars, setupVars,
                  recVars, ccVars, reqVars, idVars, cfgVars, dpVars,
                  sgVars, imVars>>

(***************************************************************************)
(* Strings.  A name is a sequence of one-character strings, so that case   *)
(* folding, truncation, concatenation and decimal formatting are computed  *)
(* and not assumed.                                                        *)
(***************************************************************************)

\* String.prototype.toLowerCase on one character of the model's alphabet.
LowerChar(c) ==
    CASE c = "A" -> "a"
      [] c = "B" -> "b"
      [] c = "O" -> "o"
      [] c = "T" -> "t"
      [] OTHER -> c

\* String.prototype.toLowerCase.
ToLowerCase(s) == [i \in 1..Len(s) |-> LowerChar(s[i])]

\* The inverse folding, used only to build listings that differ in case.
UpperChar(c) ==
    CASE c = "a" -> "A"
      [] c = "b" -> "B"
      [] c = "o" -> "O"
      [] c = "t" -> "T"
      [] OTHER -> c

ToUpperCase(s) == [i \in 1..Len(s) |-> UpperChar(s[i])]

\* String.prototype.substring(0, n).
Substring0(s, n) == SubSeq(s, 1, IF Len(s) < n THEN Len(s) ELSE n)

DigitChar(d) == <<"0", "1", "2", "3", "4", "5", "6", "7", "8", "9">>[d + 1]

\* Decimal formatting of a non-negative integer, as a template literal does.
RECURSIVE Decimal(_)
Decimal(n) ==
    IF n < 10 THEN <<DigitChar(n)>>
    ELSE Decimal(n \div 10) \o <<DigitChar(n % 10)>>

\* Date.now() formatted by a template literal: a 13-digit count of
\* milliseconds.  The seconds are fixed for the run, the milliseconds vary.
ClockSeconds == <<"1", "7", "9", "3", "7", "1", "5", "2", "0", "0">>

Pad3(ms) ==
    IF ms < 10 THEN <<"0", "0">> \o Decimal(ms)
    ELSE IF ms < 100 THEN <<"0">> \o Decimal(ms)
    ELSE Decimal(ms)

TimestampString(ms) == ClockSeconds \o Pad3(ms)

\* `${name}-${suffix}`
WithSuffix(name, suffix) == name \o <<"-">> \o suffix

(***************************************************************************)
(* OrgoClient.ensureUniqueComputerName                                     *)
(***************************************************************************)

\* const maxBaseLength = 63 - 5
maxBaseLength == 63 - 5

\* the bound of the suffix search: while (... && counter < 1000)
CounterLimit == 1000

NoName == <<>>

\* const baseName = desiredName.substring(0, maxBaseLength)
baseName == Substring0(desiredName, maxBaseLength)

\* What getProjectName can meet: a projectId given or empty, a projectName
\* given or undefined, and a listProjects that fails, lists the project, or
\* omits it.
ProjectLookups ==
    [idGiven : BOOLEAN, nameGiven : BOOLEAN, projects : {"fails", "lists", "omits"}]

\* the lookup of a project that is listed, by its id
ProjectListed == [idGiven |-> TRUE, nameGiven |-> TRUE, projects |-> "lists"]

\* getProjectName throws: no id and no name; or, with an id, listProjects
\* throws, or the project is not listed and no name was given to fall back on
getProjectNameThrows(l) ==
    IF ~l.idGiven
    THEN ~l.nameGiven
    ELSE l.projects = "fails" \/ (l.projects = "omits" /\ ~l.nameGiven)

\* a catch block that returns no name
NameOnFailureNone(desired) == NoName

\* the catch block: return desiredName
NameOnFailure(desired) == desired

\* The call up to the while loop: the lookup and the listing (whose failure
\* the catch turns into the desired name), the lower-cased Set, the early
\* return of a name that is free, and the first candidate.
BeginEnsureUnique ==
    /\ namePc = "call"
    /\ IF getProjectNameThrows(projectLookup) \/ listFails
       THEN /\ uniqueName' = NameOnFailure(desiredName)
            /\ namePc' = "returned"
            /\ UNCHANGED <<existingNames, counter>>
       ELSE /\ existingNames' = {ToLowerCase(n) : n \in listing}
            /\ IF ToLowerCase(desiredName) \notin existingNames'
               THEN /\ uniqueName' = desiredName
                    /\ namePc' = "returned"
                    /\ UNCHANGED counter
               ELSE /\ counter' = 1
                    /\ uniqueName' = WithSuffix(desiredName, Decimal(1))
                    /\ namePc' = "loop"
    /\ UNCHANGED <<listing, listFails, projectLookup, desiredName, dateNow>>
    /\ UNCHANGED OutsideName

\* a loop that compares the candidate without folding its case
LoopConditionCaseSensitive ==
    uniqueName \in existingNames /\ counter < CounterLimit

\* the condition of the while loop
LoopCondition ==
    ToLowerCase(uniqueName) \in existingNames /\ counter < CounterLimit

\* one iteration: counter++; uniqueName = `${baseName}-${counter}`
LoopIteration ==
    /\ namePc = "loop"
    /\ LoopCondition
    /\ counter' = counter + 1
    /\ uniqueName' = WithSuffix(baseName, Decimal(counter'))
    /\ UNCHANGED <<listing, listFails, projectLookup, desiredName, dateNow, namePc,
                   existingNames>>
    /\ UNCHANGED OutsideName

\* the loop exit, the timestamp fallback and the return
FinishEnsureUnique ==
    /\ namePc = "loop"
    /\ ~LoopCondition
    /\ uniqueName' = IF counter >= CounterLimit
                     THEN WithSuffix(baseName, TimestampString(dateNow))
                     ELSE uniqueName
    /\ namePc' = "returned"
    /\ UNCHANGED <<listing, listFails, projectLookup, desiredName, dateNow,
                   existingNames, counter>>
    /\ UNCHANGED OutsideName

(***************************************************************************)
(* Inputs of the name resolution.                                          *)
(***************************************************************************)

\* how far a desired name may exceed maxBaseLength
MaxOverhang == 2

\* how many numbered variants the sparse listings draw from
MaxSuffix == 2

\* the clock readings (milliseconds within the second) are 0..MaxMillis
MaxMillis == 1

Repeat(c, n) == [i \in 1..n |-> c]

Bot == <<"b", "o", "t">>

\* a name of maxBaseLength characters followed by "-2": its truncation with
\* the suffix 2 spells the name itself
LongNumbered == WithSuffix(Repeat("a", maxBaseLength), Decimal(2))

\* sanitizeName: .substring(0, 63), the length limit of a computer name
NameLimit == 63

\* a name of the full length sanitizeName lets through
FullLength == Repeat("a", NameLimit)

\* Desired names: short ones in both cases, and long ones around the
\* truncation length.
DesiredNames ==
    {Bot, ToUpperCase(Bot), LongNumbered, FullLength}
    \cup {Repeat("a", n) : n \in (maxBaseLength - 1)..(maxBaseLength + MaxOverhang)}

\* `${desired}-${c}` as the loop forms it: untruncated for 1, truncated after
CandidateName(desired, c) ==
    IF c = 1 THEN WithSuffix(desired, Decimal(1))
    ELSE WithSuffix(Substring0(desired, maxBaseLength), Decimal(c))

\* The numbered variants of a desired name, truncated and untruncated, and
\* one in upper case.
Variants(desired) ==
    {CandidateName(desired, c) : c \in 1..MaxSuffix}
    \cup {WithSuffix(desired, Decimal(c)) : c \in 1..MaxSuffix}
    \cup {ToUpperCase(WithSuffix(desired, Decimal(1)))}

\* Names carrying a clock reading, as createComputerWithUniqueName and the
\* fallback of ensureUniqueComputerName create them.
Stamped(desired) ==
    {WithSuffix(Substring0(desired, maxBaseLength), TimestampString(ms)) :
        ms \in 0..MaxMillis}

\* Sparse listings: the desired name absent, present, or present in another
\* case, with any subset of the numbered variants.
SparseListings(desired) ==
    {o \cup r : o \in {{}, {desired}, {ToUpperCase(desired)}, {ToLowerCase(desired)}},
                r \in SUBSET Variants(desired)}

\* Dense listings: the desired name and every candidate the search can try,
\* without or with one stamped name.
DenseListings(desired) ==
    LET all == {desired} \cup {CandidateName(desired, c) : c \in 1..(CounterLimit - 1)}
    IN  {all} \cup {all \cup {st} : st \in Stamped(desired)}

\* the desired names that are also tried against a dense listing
DenseNames == {Bot, Repeat("a", maxBaseLength)}


(***************************************************************************)
(* OrgoClient.waitForReady                                                 *)
(***************************************************************************)

\* await new Promise(resolve => setTimeout(resolve, 3000))
GraceMs == 3000

\* intervalMs = 2000
IntervalMs == 2000

\* maxAttempts = 30
DefaultMaxAttempts == 30

\* const MAX_NOT_FOUND_RETRIES = 10
MAX_NOT_FOUND_RETRIES == 10

NoError == <<>>

\* Error messages are sequences of words.  These are the messages request()
\* throws: the provider's error text, or "Orgo API error: <status>" when the
\* body carries none, or the timeout message.
NotFoundMessages ==
    {<<"Orgo", "API", "error:", "404">>,
     <<"Computer", "not", "found">>,
     <<"Desktop", "Not", "Found">>}

OtherMessages ==
    {<<"Orgo", "API", "error:", "500">>,
     <<"Request", "to", "Orgo", "API", "timed", "out">>}

\* What one status query can produce: a computer with a status, or an error.
StatusAnswers ==
    [kind : {"computer"}, status : {"running", "starting"}, message : {NoError}]
    \cup [kind : {"error"}, status : {"none"},
          message : NotFoundMessages \cup OtherMessages]

LowerWord(w) ==
    CASE w = "Not" -> "not"
      [] w = "Found" -> "found"
      [] OTHER -> w

\* message.includes(w) for a one-word w
IncludesWord(m, w) == \E i \in 1..Len(m) : m[i] = w

\* message.includes(phrase) for a phrase of several words
IncludesPhrase(m, phrase) ==
    \E i \in 0..(Len(m) - Len(phrase)) :
        \A j \in 1..Len(phrase) : m[i + j] = phrase[j]

\* errorMessage.includes('404') || errorMessage.toLowerCase().includes('not found')
isNotFoundError(m) ==
    \/ IncludesWord(m, "404")
    \/ IncludesPhrase([i \in 1..Len(m) |-> LowerWord(m[i])], <<"not", "found">>)

\* `Computer ${computerId} not found after ${MAX_NOT_FOUND_RETRIES} attempts
\*  - it may have failed to create`
FailedToCreateMessage ==
    <<"Computer", "id", "not", "found", "after", "10", "attempts", "-",
      "it", "may", "have", "failed", "to", "create">>

\* 'Computer did not become ready in time'
NotReadyMessage ==
    <<"Computer", "did", "not", "become", "ready", "in", "time">>

\* a limit that is reached one response early
NotFoundLimitReached(n) == n >= MAX_NOT_FOUND_RETRIES

\* if (consecutiveNotFoundErrors > MAX_NOT_FOUND_RETRIES)
NotFoundLimitExceeded(n) == n > MAX_NOT_FOUND_RETRIES

\* a test that takes every status for the awaited one
StatusIsAny(status) == TRUE

\* if (computer.status === 'running')
StatusIsRunning(status) == status = "running"

\* the initial delay, before the loop
WaitGrace ==
    /\ wfPc = "grace"
    /\ wfClock' = wfClock + GraceMs
    /\ lastError' = NoError
    /\ consecutiveNotFoundErrors' = 0
    /\ wfI' = 0
    /\ wfPc' = "poll"
    /\ UNCHANGED <<maxAttempts, wfResult, wfThrown, wfQueries, wfFirstQueryAt,
                   wfNotFound, wfOnlyNotFound, wfLastStatus, wfRun>>
    /\ UNCHANGED OutsideWait

\* the body of one iteration up to its sleep: getComputer and the handling
\* of its answer
PollStatus ==
    /\ wfPc = "poll"
    /\ wfI < maxAttempts
    /\ \E a \in StatusAnswers :
        /\ wfQueries' = wfQueries + 1
        /\ wfFirstQueryAt' = IF wfQueries = 0 THEN wfClock ELSE wfFirstQueryAt
        /\ wfNotFound' = IF a.kind = "error" /\ isNotFoundError(a.message)
                         THEN wfNotFound + 1 ELSE wfNotFound
        /\ wfOnlyNotFound' = (wfOnlyNotFound /\ a.kind = "error"
                                /\ isNotFoundError(a.message))
        /\ wfLastStatus' = IF a.kind = "computer" THEN a.status ELSE "error"
        /\ wfRun' = IF a.kind = "error" /\ isNotFoundError(a.message)
                     THEN wfRun + 1 ELSE 0
        /\ IF a.kind = "computer"
           THEN /\ consecutiveNotFoundErrors' = 0
                /\ IF StatusIsRunning(a.status)
                   THEN /\ wfResult' = "returned"
                        /\ wfPc' = "done"
                        /\ UNCHANGED lastError
                   ELSE /\ lastError' = NoError
                        /\ wfPc' = "sleep"
                        /\ UNCHANGED wfResult
                /\ UNCHANGED wfThrown
           ELSE /\ lastError' = a.message
                /\ IF isNotFoundError(a.message)
                   THEN /\ consecutiveNotFoundErrors' = consecutiveNotFoundErrors + 1
                        /\ IF NotFoundLimitExceeded(consecutiveNotFoundErrors')
                           THEN /\ wfResult' = "threw"
                                /\ wfThrown' = FailedToCreateMessage
                                /\ wfPc' = "done"
                           ELSE /\ wfPc' = "sleep"
                                /\ UNCHANGED <<wfResult, wfThrown>>
                   ELSE /\ wfPc' = "sleep"
                        /\ UNCHANGED <<consecutiveNotFoundErrors, wfResult, wfThrown>>
    /\ UNCHANGED <<maxAttempts, wfI, wfClock>>
    /\ UNCHANGED OutsideWait

\* await new Promise(resolve => setTimeout(resolve, intervalMs)); i++
SleepInterval ==
    /\ wfPc = "sleep"
    /\ wfClock' = wfClock + IntervalMs
    /\ wfI' = wfI + 1
    /\ wfPc' = "poll"
    /\ UNCHANGED <<maxAttempts, lastError, consecutiveNotFoundErrors, wfResult,
                   wfThrown, wfQueries, wfFirstQueryAt, wfNotFound, wfOnlyNotFound,
                   wfLastStatus, wfRun>>
    /\ UNCHANGED OutsideWait

\* after the loop: the last not-found error, or the not-ready error
AttemptsExhausted ==
    /\ wfPc = "poll"
    /\ wfI >= maxAttempts
    /\ wfResult' = "threw"
    /\ wfThrown' = IF lastError # NoError /\ consecutiveNotFoundErrors > 0
                   THEN lastError ELSE NotReadyMessage
    /\ wfPc' = "done"
    /\ UNCHANGED <<maxAttempts, wfI, lastError, consecutiveNotFoundErrors, wfClock,
                   wfQueries, wfFirstQueryAt, wfNotFound, wfOnlyNotFound,
                   wfLastStatus, wfRun>>
    /\ UNCHANGED OutsideWait

(***************************************************************************)
(* AWSClient: the replies of EC2                                           *)
(***************************************************************************)

NoKey == "none"

\* const keyName = `clawdbot-${config.name}-${Date.now()}`
NewKey == "clawdbot-bot-1793715200000"

\* a key pair of the account that this client did not create
OtherKey == "other-key"

NoEc2Error == [Code |-> "none", message |-> <<>>]

\* RunInstances answering with an instance, or with no instance at all
InstanceReply == [Code |-> "ok", message |-> <<"i-1">>]
EmptyReply == [Code |-> "ok", message |-> <<>>]

\* RunInstances refusing an image that is not shared with the account
NotAuthorizedError ==
    [Code |-> "AuthFailure",
     message |-> <<"Not", "authorized", "for", "images", ":", "ami-1">>]

\* other refusals of RunInstances
OtherLaunchErrors ==
    {[Code |-> "AuthFailure",
      message |-> <<"AWS", "was", "not", "able", "to", "validate", "the",
                    "provided", "access", "credentials">>],
     [Code |-> "UnauthorizedOperation",
      message |-> <<"You", "are", "not", "authorized", "to", "perform",
                    "this", "operation">>],
     [Code |-> "InstanceLimitExceeded",
      message |-> <<"Instance", "limit", "exceeded">>]}

\* throw new Error('Failed to create instance')
NoInstanceIdError ==
    [Code |-> "none", message |-> <<"Failed", "to", "create", "instance">>]

\* `AMI ${customAmiId} is not accessible. Failed to automatically share AMI ...`
AmiShareFailedError ==
    [Code |-> "none",
     message |-> <<"AMI", "ami-1", "is", "not", "accessible", "Failed", "to",
                   "automatically", "share", "AMI">>]

\* `AMI ${customAmiId} is not accessible. Please ensure the AMI is shared ...`
AmiNotSharedError ==
    [Code |-> "none",
     message |-> <<"AMI", "ami-1", "is", "not", "accessible", "Please",
                   "ensure", "the", "AMI", "is", "shared">>]

\* errors of the calls made outside the launch's try block
SecurityGroupError ==
    [Code |-> "none", message |-> <<"No", "default", "VPC", "found">>]
KeyPairError ==
    [Code |-> "InvalidKeyPair.Duplicate", message |-> <<"key", "pair", "exists">>]
SubnetError ==
    [Code |-> "RequestLimitExceeded", message |-> <<"Request", "limit", "exceeded">>]
WaitError ==
    [Code |-> "TimeoutError", message |-> <<"Waiter", "has", "timed", "out">>]

\* What RunInstances can answer.  An image that is not shared is refused; a
\* grant made during this call may not have propagated yet.
RunInstancesReplies ==
    IF customAmiId /\ ~amiShared
    THEN {NotAuthorizedError} \cup OtherLaunchErrors
    ELSE {InstanceReply, EmptyReply} \cup OtherLaunchErrors
         \cup (IF customAmiId /\ ~wasShared THEN {NotAuthorizedError} ELSE {})

\* the error the try block of the launch ends with
LaunchErrorOf(reply) == IF reply = EmptyReply THEN NoInstanceIdError ELSE reply

\* What ModifyImageAttribute can answer: success (no message), a complaint
\* that the permission exists, or a refusal.
ShareGranted == <<>>
ShareDenied == <<"You", "are", "not", "authorized", "to", "perform", "this",
                 "operation">>
ShareReplies ==
    {ShareGranted, ShareDenied}
    \cup (IF amiShared
          THEN {<<"Launch", "permission", "already", "exists">>,
                <<"Account", "already", "authorized">>}
          ELSE {})

\* shareAMIWithAccount: returns on success and on "already exists" /
\* "already authorized", throws on any other error
shareAMIWithAccount(reply) ==
    IF \/ reply = ShareGranted
       \/ IncludesPhrase(reply, <<"already", "exists">>)
       \/ IncludesPhrase(reply, <<"already", "authorized">>)
    THEN "returned"
    ELSE "threw"

\* a test of the error code alone
isAuthFailure(error) == error.Code = "AuthFailure"

\* error.Code === 'AuthFailure' &&
\*     error.message?.includes('Not authorized for images')
isNotAuthorizedError(error) ==
    /\ error.Code = "AuthFailure"
    /\ IncludesPhrase(error.message, <<"Not", "authorized", "for", "images">>)

\* a cleanup that sends nothing
DeleteKeyPairSkipped(keys, name) == keys

\* the effect of a DeleteKeyPair request that EC2 accepts
DeleteKeyPair(keys, name) == keys \ {name}

(***************************************************************************)
(* AWSClient.createInstance                                                *)
(***************************************************************************)

\* createInstance ends by throwing error
Throw(error) ==
    /\ ciResult' = "threw"
    /\ ciThrown' = error
    /\ ciPc' = "done"

\* if (customAmiId) { ... }: the grant before the launch, whose failure and
\* the failure of the account lookup are logged and swallowed
PreLaunchShare ==
    /\ ciPc = "share"
    /\ IF customAmiId
       THEN \E account \in {"ok", "failed"}, reply \in ShareReplies :
              IF account = "ok" /\ adminCredentials
              THEN /\ preShareCalls' = preShareCalls + 1
                   /\ amiShared' = (amiShared \/ shareAMIWithAccount(reply) = "returned")
              ELSE UNCHANGED <<preShareCalls, amiShared>>
       ELSE UNCHANGED <<preShareCalls, amiShared>>
    /\ ciPc' = "prepare"
    /\ UNCHANGED <<customAmiId, adminCredentials, wasShared, keyPairs,
                   instanceState, instanceKeyName, postShareCalls, runCalls,
                   launchError, ciResult, ciThrown, cleanupCalls, cleanupDone>>
    /\ UNCHANGED <<tcPc, tcCall, keyName, terminated, keyPairDeleted, errors,
                   tcLookup, tcTerminate, tcDelete>>
    /\ UNCHANGED OutsideEc2

\* getOrCreateSecurityGroup, createKeyPair (which first deletes a key pair of
\* the same name, ignoring errors) and DescribeSubnets: none is in a try
\* block, so a failure of any of them reaches the caller
PrepareLaunch ==
    /\ ciPc = "prepare"
    /\ \E group \in {"ok", "failed"}, del \in {"ok", "failed"},
          create \in {"ok", "failed"}, subnets \in {"ok", "failed"} :
         LET afterDelete == IF del = "ok" THEN DeleteKeyPair(keyPairs, NewKey)
                            ELSE keyPairs
             created == create = "ok" /\ NewKey \notin afterDelete
         IN  IF group = "failed"
             THEN /\ Throw(SecurityGroupError)
                  /\ UNCHANGED keyPairs
             ELSE IF ~created
             THEN /\ Throw(KeyPairError)
                  /\ keyPairs' = afterDelete
             ELSE /\ keyPairs' = afterDelete \cup {NewKey}
                  /\ IF subnets = "failed"
                     THEN Throw(SubnetError)
                     ELSE /\ ciPc' = "launch"
                          /\ UNCHANGED <<ciResult, ciThrown>>
    /\ UNCHANGED <<customAmiId, adminCredentials, amiShared, wasShared,
                   instanceState, instanceKeyName, preShareCalls,
                   postShareCalls, runCalls, launchError, cleanupCalls,
                   cleanupDone>>
    /\ UNCHANGED <<tcPc, tcCall, keyName, terminated, keyPairDeleted, errors,
                   tcLookup, tcTerminate, tcDelete>>
    /\ UNCHANGED OutsideEc2

\* The first RunInstances and the head of its catch block: a not-authorized
\* refusal of a custom image goes to the grant-and-retry branch, or, without
\* admin credentials, to a descriptive error; any other error goes to the
\* key pair cleanup.
Launch ==
    /\ ciPc = "launch"
    /\ \E reply \in RunInstancesReplies :
        /\ runCalls' = runCalls + 1
        /\ IF reply = InstanceReply
           THEN /\ instanceState' = "running"
                /\ instanceKeyName' = NewKey
                /\ ciPc' = "wait"
                /\ UNCHANGED <<launchError, ciResult, ciThrown>>
           ELSE /\ launchError' = LaunchErrorOf(reply)
                /\ UNCHANGED <<instanceState, instanceKeyName>>
                /\ IF isNotAuthorizedError(launchError') /\ customAmiId
                   THEN IF adminCredentials
                        THEN /\ ciPc' = "retryShare"
                             /\ UNCHANGED <<ciResult, ciThrown>>
                        ELSE Throw(AmiNotSharedError)
                   ELSE /\ ciPc' = "cleanup"
                        /\ UNCHANGED <<ciResult, ciThrown>>
    /\ UNCHANGED <<customAmiId, adminCredentials, amiShared, wasShared, keyPairs,
                   preShareCalls, postShareCalls, cleanupCalls, cleanupDone>>
    /\ UNCHANGED <<tcPc, tcCall, keyName, terminated, keyPairDeleted, errors,
                   tcLookup, tcTerminate, tcDelete>>
    /\ UNCHANGED OutsideEc2

\* the grant after a refused launch; its failure, and the failure of the
\* account lookup before it, end the call with the "not accessible" error
RetryShare ==
    /\ ciPc = "retryShare"
    /\ \E account \in {"ok", "failed"}, reply \in ShareReplies :
         IF account = "failed"
         THEN /\ Throw(AmiShareFailedError)
              /\ UNCHANGED <<postShareCalls, amiShared>>
         ELSE /\ postShareCalls' = postShareCalls + 1
              /\ IF shareAMIWithAccount(reply) = "returned"
                 THEN /\ amiShared' = TRUE
                      /\ ciPc' = "retryLaunch"
                      /\ UNCHANGED <<ciResult, ciThrown>>
                 ELSE /\ Throw(AmiShareFailedError)
                      /\ UNCHANGED amiShared
    /\ UNCHANGED <<customAmiId, adminCredentials, wasShared, keyPairs,
                   instanceState, instanceKeyName, preShareCalls, runCalls,
                   launchError, cleanupCalls, cleanupDone>>
    /\ UNCHANGED <<tcPc, tcCall, keyName, terminated, keyPairDeleted, errors,
                   tcLookup, tcTerminate, tcDelete>>
    /\ UNCHANGED OutsideEc2

\* the 2 s wait and the second RunInstances; any failure of it ends the call
\* with the "not accessible" error
RetryLaunch ==
    /\ ciPc = "retryLaunch"
    /\ \E reply \in RunInstancesReplies :
        /\ runCalls' = runCalls + 1
        /\ IF reply = InstanceReply
           THEN /\ instanceState' = "running"
                /\ instanceKeyName' = NewKey
                /\ ciPc' = "wait"
                /\ UNCHANGED <<ciResult, ciThrown>>
           ELSE /\ Throw(AmiShareFailedError)
                /\ UNCHANGED <<instanceState, instanceKeyName>>
    /\ UNCHANGED <<customAmiId, adminCredentials, amiShared, wasShared, keyPairs,
                   preShareCalls, postShareCalls, launchError, cleanupCalls,
                   cleanupDone>>
    /\ UNCHANGED <<tcPc, tcCall, keyName, terminated, keyPairDeleted, errors,
                   tcLookup, tcTerminate, tcDelete>>
    /\ UNCHANGED OutsideEc2

\* else { try { DeleteKeyPair } catch { } throw error }
CleanupKeyPair ==
    /\ ciPc = "cleanup"
    /\ \E del \in {"ok", "failed"} :
        /\ cleanupCalls' = cleanupCalls + 1
        /\ cleanupDone' = (del = "ok")
        /\ keyPairs' = IF del = "ok" THEN DeleteKeyPair(keyPairs, NewKey)
                       ELSE keyPairs
    /\ Throw(launchError)
    /\ UNCHANGED <<customAmiId, adminCredentials, amiShared, wasShared,
                   instanceState, instanceKeyName, preShareCalls,
                   postShareCalls, runCalls, launchError>>
    /\ UNCHANGED <<tcPc, tcCall, keyName, terminated, keyPairDeleted, errors,
                   tcLookup, tcTerminate, tcDelete>>
    /\ UNCHANGED OutsideEc2

\* waitUntilInstanceRunning and getInstance, then the return
AwaitRunning ==
    /\ ciPc = "wait"
    /\ \E running \in {"ok", "failed"} :
         IF running = "ok"
         THEN /\ ciResult' = "returned"
              /\ ciPc' = "done"
              /\ UNCHANGED ciThrown
         ELSE Throw(WaitError)
    /\ UNCHANGED <<customAmiId, adminCredentials, amiShared, wasShared, keyPairs,
                   instanceState, instanceKeyName, preShareCalls,
                   postShareCalls, runCalls, launchError, cleanupCalls,
                   cleanupDone>>
    /\ UNCHANGED <<tcPc, tcCall, keyName, terminated, keyPairDeleted, errors,
                   tcLookup, tcTerminate, tcDelete>>
    /\ UNCHANGED OutsideEc2

(***************************************************************************)
(* AWSClient.terminateInstanceWithCleanup                                  *)
(***************************************************************************)

\* a test that counts no error as an absent key pair
KeyPairAbsentNever(name) == FALSE

\* !(error.name !== 'InvalidKeyPair.NotFound')
KeyPairAbsent(name) == name = "InvalidKeyPair.NotFound"

\* What DeleteKeyPair can answer: success, or an error by its name.
DeleteKeyPairAnswers(name) ==
    {"ok", "RequestLimitExceeded"}
    \cup (IF name \notin keyPairs THEN {"InvalidKeyPair.NotFound"} ELSE {})

\* try { instance = await this.getInstance(instanceId); keyName = ... }
TcLookup ==
    /\ tcPc = "lookup"
    /\ \E answer \in {"found", "failed"} :
        /\ answer = "found" => instanceState # "none"
        /\ tcLookup' = answer
        /\ IF answer = "found"
           THEN /\ keyName' = instanceKeyName
                /\ UNCHANGED errors
           ELSE /\ errors' = Append(errors, "Failed to get instance details")
                /\ UNCHANGED keyName
    /\ tcPc' = "terminate"
    /\ UNCHANGED <<customAmiId, adminCredentials, amiShared, wasShared, keyPairs,
                   instanceState, instanceKeyName>>
    /\ UNCHANGED <<ciPc, preShareCalls, postShareCalls, runCalls, launchError,
                   ciResult, ciThrown, cleanupCalls, cleanupDone>>
    /\ UNCHANGED <<tcCall, terminated, keyPairDeleted, tcTerminate, tcDelete>>
    /\ UNCHANGED OutsideEc2

\* try { TerminateInstances; terminated = true }
TcTerminate ==
    /\ tcPc = "terminate"
    /\ \E answer \in {"ok", "failed"} :
        /\ answer = "ok" => instanceState # "none"
        /\ tcTerminate' = answer
        /\ IF answer = "ok"
           THEN /\ terminated' = TRUE
                /\ instanceState' = "terminated"
                /\ UNCHANGED errors
           ELSE /\ errors' = Append(errors, "Failed to terminate instance")
                /\ UNCHANGED <<terminated, instanceState>>
    /\ tcPc' = "deleteKey"
    /\ UNCHANGED <<customAmiId, adminCredentials, amiShared, wasShared, keyPairs,
                   instanceKeyName>>
    /\ UNCHANGED <<ciPc, preShareCalls, postShareCalls, runCalls, launchError,
                   ciResult, ciThrown, cleanupCalls, cleanupDone>>
    /\ UNCHANGED <<tcCall, keyName, keyPairDeleted, tcLookup, tcDelete>>
    /\ UNCHANGED OutsideEc2

\* if (keyName) { try { DeleteKeyPair; keyPairDeleted = true } catch ... }
\* and the return
TcDeleteKey ==
    /\ tcPc = "deleteKey"
    /\ IF keyName # NoKey
       THEN \E answer \in DeleteKeyPairAnswers(keyName) :
              /\ tcDelete' = answer
              /\ IF answer = "ok"
                 THEN /\ keyPairs' = DeleteKeyPair(keyPairs, keyName)
                      /\ keyPairDeleted' = TRUE
                      /\ UNCHANGED errors
                 ELSE /\ UNCHANGED keyPairs
                      /\ IF KeyPairAbsent(answer)
                         THEN /\ keyPairDeleted' = TRUE
                              /\ UNCHANGED errors
                         ELSE /\ errors' = Append(errors, "Failed to delete key pair")
                              /\ UNCHANGED keyPairDeleted
       ELSE /\ tcDelete' = "skipped"
            /\ UNCHANGED <<keyPairs, keyPairDeleted, errors>>
    /\ tcPc' = "done"
    /\ UNCHANGED <<customAmiId, adminCredentials, amiShared, wasShared,
                   instanceState, instanceKeyName>>
    /\ UNCHANGED <<ciPc, preShareCalls, postShareCalls, runCalls, launchError,
                   ciResult, ciThrown, cleanupCalls, cleanupDone>>
    /\ UNCHANGED <<tcCall, keyName, terminated, tcLookup, tcTerminate>>
    /\ UNCHANGED OutsideEc2

\* how many calls in a row are made on the instance
MaxCalls == 2

\* the next call on the same instance: fresh locals
TcCallAgain ==
    /\ tcPc = "done"
    /\ tcCall < MaxCalls
    /\ tcCall' = tcCall + 1
    /\ tcPc' = "lookup"
    /\ keyName' = NoKey
    /\ terminated' = FALSE
    /\ keyPairDeleted' = FALSE
    /\ errors' = <<>>
    /\ tcLookup' = "none"
    /\ tcTerminate' = "none"
    /\ tcDelete' = "none"
    /\ UNCHANGED <<customAmiId, adminCredentials, amiShared, wasShared, keyPairs,
                   instanceState, instanceKeyName>>
    /\ UNCHANGED <<ciPc, preShareCalls, postShareCalls, runCalls, launchError,
                   ciResult, ciThrown, cleanupCalls, cleanupDone>>
    /\ UNCHANGED OutsideEc2

(***************************************************************************)
(* AWSVMSetup.runCommand, with connectSSH, disconnectSSH and executeSSH    *)
(***************************************************************************)

\* retries: number = 2
DefaultRetries == 2

\* the largest retries argument tried
MaxRetries == 3

\* the most runCommand calls made on one executor
MaxCommands == 2

\* a wait that does not grow
WaitTimeFlat(a) == 5000

\* const waitTime = (attempt + 1) * 5000
WaitTime(a) == (a + 1) * 5000

\* what the command prints
CommandOutput == <<"output">>

\* the exit code of a command killed by a signal
NullCode == -1

\* err.message of the ssh client's 'error' event
ConnectErrors ==
    {<<"connect", "ECONNREFUSED", "host:22">>,
     <<"connect", "ETIMEDOUT", "host:22">>,
     <<"Timed", "out", "while", "waiting", "for", "handshake">>,
     <<"All", "configured", "authentication", "methods", "failed">>}

\* reject(new Error(`SSH connection failed: ${err.message}`))
ConnectionFailed(m) == <<"SSH", "connection", "failed:">> \o m

\* what connectSSH throws before it connects, when it has no address
LookupErrors ==
    {<<"Instance", "i-1", "not", "found">>,
     <<"Instance", "does", "not", "have", "a", "public", "IP", "address">>}

\* the err of sshClient.exec's callback, rejected as it is
ExecErrors ==
    {<<"Not", "connected">>,
     <<"No", "response", "from", "server">>,
     <<"(SSH)", "Channel", "open", "failure:", "open", "failed">>,
     <<"Unable", "to", "exec">>}

\* exitCode = code || 0
ExitCodeOf(code) == IF code = NullCode THEN 0 ELSE code

\* What one attempt can meet, by the state of the connection.
AttemptOutcomes ==
    (IF ~(sshConnected /\ sshClient) /\ ~publicIp
     THEN [kind : {"lookup"}, message : LookupErrors, code : {NullCode}]
     ELSE {})
    \cup (IF ~(sshConnected /\ sshClient)
          THEN [kind : {"connect"},
                message : {ConnectionFailed(m) : m \in ConnectErrors},
                code : {NullCode}]
          ELSE {})
    \cup [kind : {"exec"}, message : ExecErrors, code : {NullCode}]
    \cup [kind : {"exit"}, message : {CommandOutput}, code : {0, 1, NullCode}]

\* message.includes('ECONNREFUSED') || message.includes('ETIMEDOUT')
\*     || message.includes('SSH')
isConnectionError(message) ==
    \/ IncludesWord(message, "ECONNREFUSED")
    \/ IncludesWord(message, "ETIMEDOUT")
    \/ IncludesWord(message, "SSH")

\* One pass of the loop body up to the sleep: connectSSH, executeSSH, the
\* result, and the catch block with its retry test and disconnectSSH.
Attempt ==
    /\ rcPc = "attempt"
    /\ attempt <= retries
    /\ \E met \in AttemptOutcomes :
        /\ rcHistory' = Append(rcHistory, met)
        /\ publicIp' = (publicIp \/ met.kind # "lookup")
        /\ sshClient' = (sshClient \/ met.kind # "lookup")
        /\ IF met.kind = "exit"
           THEN /\ sshConnected' = TRUE
                /\ rcOutput' = met.message
                /\ rcSuccess' = (ExitCodeOf(met.code) = 0)
                /\ rcPc' = "done"
           ELSE IF attempt < retries /\ isConnectionError(met.message)
           THEN /\ sshConnected' = IF sshClient' THEN FALSE ELSE sshConnected
                /\ rcPc' = "backoff"
                /\ UNCHANGED <<rcOutput, rcSuccess>>
           ELSE /\ sshConnected' = (met.kind = "exec")
                /\ rcOutput' = met.message
                /\ rcSuccess' = FALSE
                /\ rcPc' = "done"
        /\ LET opened == ~(sshConnected /\ sshClient) /\ met.kind # "lookup"
               client == IF opened THEN connection + 1 ELSE connection
               executed == met.kind \in {"exec", "exit"}
               retried == /\ met.kind # "exit"
                          /\ attempt < retries
                          /\ isConnectionError(met.message)
           IN  /\ connection' = client
               /\ rcConns' = Append(rcConns, client)
               /\ ranOnErrored' =
                      (ranOnErrored
                       \/ (executed /\ client \in erroredConnections))
               /\ erroredConnections' =
                      IF met.kind \in {"connect", "exec"}
                      THEN erroredConnections \cup {client}
                      ELSE erroredConnections
               /\ closedConnections' =
                      IF retried /\ sshClient'
                      THEN closedConnections \cup {client}
                      ELSE closedConnections
    /\ UNCHANGED <<retries, attempt, rcWaits, rcClock, rcCalls>>
    /\ UNCHANGED OutsideSsh

\* await new Promise(resolve => setTimeout(resolve, waitTime)); continue
Backoff ==
    /\ rcPc = "backoff"
    /\ rcWaits' = Append(rcWaits, WaitTime(attempt))
    /\ rcClock' = rcClock + WaitTime(attempt)
    /\ attempt' = attempt + 1
    /\ rcPc' = "attempt"
    /\ UNCHANGED <<retries, sshConnected, sshClient, publicIp, rcHistory,
                   rcOutput, rcSuccess, rcCalls, connection, rcConns,
                   erroredConnections, closedConnections, ranOnErrored>>
    /\ UNCHANGED OutsideSsh

\* the setup calls runCommand again on the same executor, which keeps its
\* client object, its connected flag and its address
RunNextCommand ==
    /\ rcPc = "done"
    /\ rcCalls < MaxCommands
    /\ rcCalls' = rcCalls + 1
    /\ retries' \in 0..MaxRetries
    /\ rcPc' = "attempt"
    /\ attempt' = 0
    /\ rcHistory' = <<>>
    /\ rcWaits' = <<>>
    /\ rcClock' = 0
    /\ rcOutput' = <<>>
    /\ rcSuccess' = FALSE
    /\ rcConns' = <<>>
    /\ UNCHANGED <<sshConnected, sshClient, publicIp, connection,
                   erroredConnections, closedConnections, ranOnErrored>>
    /\ UNCHANGED OutsideSsh

(***************************************************************************)
(* AWSVMSetup.startClawdbotGateway and startOpenClawGateway                *)
(***************************************************************************)

\* for (let attempt = 0; attempt < 5; attempt++)
GatewayChecks == 5

\* How a runCommand call can end: the command ran and exited with 0, ran
\* and exited with another status, or never ran because no attempt reached
\* the machine.
RunOutcomes == {"ran", "failed", "unreached"}

\* the gateway processes on the machine
GatewayProcesses ==
    (IF oldGateway # "none" THEN 1 ELSE 0)
    + (IF newGateway \in {"starting", "listening"} THEN 1 ELSE 0)

\* the processes listening on port 18789
Listeners == IF portOwner = "none" THEN 0 ELSE 1

\* the port once the old gateway is gone
PortWithoutOld == IF portOwner = "old" THEN "none" ELSE portOwner

\* runCommand(`echo '...' | base64 -d > /tmp/start-clawdbot.sh && chmod +x ...`):
\* the result is not read
WriteStartupScript ==
    /\ gwKind = "clawdbot"
    /\ gwPc = "prepare"
    /\ gwPc' = "stop"
    /\ UNCHANGED <<gwKind, oldGateway, newGateway, portOwner, oldAtStart,
                   gwCheck, isRunning, gwResult>>
    /\ UNCHANGED <<gwSawProcess, gwSawPort, gwWaits, gwLogFetched>>
    /\ UNCHANGED OutsideGateway

\* runCommand("pkill -f 'clawdbot gateway' 2>/dev/null || true") and the 2 s
\* sleep: the result is not read.  When the command runs, the gateway is
\* signalled; it is gone after the sleep, or still stopping.
KillExistingGateway ==
    /\ gwKind = "clawdbot"
    /\ gwPc = "stop"
    /\ \E outcome \in {"ran", "unreached"}, after \in {"none", "stopping"} :
         IF outcome = "ran" /\ oldGateway = "running"
         THEN /\ oldGateway' = after
              /\ portOwner' = IF after = "none" THEN PortWithoutOld ELSE portOwner
         ELSE UNCHANGED <<oldGateway, portOwner>>
    /\ gwPc' = "start"
    /\ UNCHANGED <<gwKind, newGateway, oldAtStart, gwCheck, isRunning, gwResult>>
    /\ UNCHANGED <<gwSawProcess, gwSawPort, gwWaits, gwLogFetched>>
    /\ UNCHANGED OutsideGateway

\* runCommand('nohup /tmp/start-clawdbot.sh >> /tmp/clawdbot.log 2>&1 & echo $!')
\* and the 8 s sleep: the result is not read.  When the command runs, a new
\* gateway process starts.
StartGatewayProcess ==
    /\ gwKind = "clawdbot"
    /\ gwPc = "start"
    /\ oldAtStart' = oldGateway
    /\ \E outcome \in {"ran", "unreached"} :
         newGateway' = IF outcome = "ran" THEN "starting" ELSE newGateway
    /\ gwPc' = "check"
    /\ UNCHANGED <<gwKind, oldGateway, portOwner, gwCheck, isRunning, gwResult>>
    /\ UNCHANGED <<gwSawProcess, gwSawPort, gwWaits, gwLogFetched>>
    /\ UNCHANGED OutsideGateway

\* One pass of the verification loop: pgrep for the process, then, if one
\* is seen, the socket table; a command that never ran prints neither
\* marker.  pgrep -f may also see the shell that runs the check.
CheckProcessAndPort ==
    /\ gwKind = "clawdbot"
    /\ gwPc = "check"
    /\ gwCheck < GatewayChecks
    /\ \E processCheck \in {"ran", "unreached"}, portCheck \in {"ran", "unreached"},
          selfMatch \in BOOLEAN :
         LET hasProcess == processCheck = "ran" /\ (GatewayProcesses > 0 \/ selfMatch)
             listening == hasProcess /\ portCheck = "ran" /\ Listeners > 0
         IN  /\ gwSawProcess' = hasProcess
             /\ gwSawPort' = listening
             /\ IF listening
                THEN /\ isRunning' = TRUE
                     /\ gwResult' = "true"
                     /\ gwPc' = "done"
                     /\ UNCHANGED <<gwCheck, gwWaits>>
                ELSE /\ gwCheck' = gwCheck + 1
                     /\ gwWaits' = IF gwCheck < GatewayChecks - 1
                                   THEN gwWaits + 1 ELSE gwWaits
                     /\ UNCHANGED <<isRunning, gwResult, gwPc>>
    /\ UNCHANGED gwLogFetched
    /\ UNCHANGED <<gwKind, oldGateway, newGateway, portOwner, oldAtStart>>
    /\ UNCHANGED OutsideGateway

\* runCommand('echo $HOME')
GetHomeDirectory ==
    /\ gwKind = "openclaw"
    /\ gwPc = "prepare"
    /\ gwPc' = "stop"
    /\ UNCHANGED <<gwKind, oldGateway, newGateway, portOwner, oldAtStart,
                   gwCheck, isRunning, gwResult>>
    /\ UNCHANGED <<gwSawProcess, gwSawPort, gwWaits, gwLogFetched>>
    /\ UNCHANGED OutsideGateway

\* runCommand(`cd ${repoDir} && docker compose down 2>/dev/null || true`) and
\* the 3 s sleep: the result is not read, and "|| true" hides a failure of
\* docker.  When the command runs and docker obeys, the containers are
\* stopped and removed.
ComposeDown ==
    /\ gwKind = "openclaw"
    /\ gwPc = "stop"
    /\ \E outcome \in {"ran", "unreached"}, obeyed \in BOOLEAN :
         IF outcome = "ran" /\ obeyed
         THEN /\ oldGateway' = "none"
              /\ portOwner' = PortWithoutOld
         ELSE UNCHANGED <<oldGateway, portOwner>>
    /\ gwPc' = "start"
    /\ UNCHANGED <<gwKind, newGateway, oldAtStart, gwCheck, isRunning, gwResult>>
    /\ UNCHANGED <<gwSawProcess, gwSawPort, gwWaits, gwLogFetched>>
    /\ UNCHANGED OutsideGateway

\* runCommand(`cd ${repoDir} && docker compose up -d`), false when it fails,
\* and the 10 s sleep.  Compose leaves a running container as it is.
ComposeUp ==
    /\ gwKind = "openclaw"
    /\ gwPc = "start"
    /\ oldAtStart' = oldGateway
    /\ \E outcome \in RunOutcomes :
         IF outcome = "ran"
         THEN /\ newGateway' = IF oldGateway = "none" THEN "starting" ELSE newGateway
              /\ gwPc' = "check"
              /\ UNCHANGED gwResult
         ELSE /\ gwResult' = "false"
              /\ gwPc' = "done"
              /\ UNCHANGED newGateway
    /\ UNCHANGED <<gwKind, oldGateway, portOwner, gwCheck, isRunning>>
    /\ UNCHANGED <<gwSawProcess, gwSawPort, gwWaits, gwLogFetched>>
    /\ UNCHANGED OutsideGateway

\* one pass of the verification loop: the socket table only
CheckPort ==
    /\ gwKind = "openclaw"
    /\ gwPc = "check"
    /\ gwCheck < GatewayChecks
    /\ \E portCheck \in {"ran", "unreached"} :
         /\ gwSawPort' = (portCheck = "ran" /\ Listeners > 0)
         /\ IF portCheck = "ran" /\ Listeners > 0
            THEN /\ isRunning' = TRUE
                 /\ gwResult' = "true"
                 /\ gwPc' = "done"
                 /\ UNCHANGED <<gwCheck, gwWaits>>
            ELSE /\ gwCheck' = gwCheck + 1
                 /\ gwWaits' = IF gwCheck < GatewayChecks - 1
                               THEN gwWaits + 1 ELSE gwWaits
                 /\ UNCHANGED <<isRunning, gwResult, gwPc>>
    /\ UNCHANGED <<gwSawProcess, gwLogFetched>>
    /\ UNCHANGED <<gwKind, oldGateway, newGateway, portOwner, oldAtStart>>
    /\ UNCHANGED OutsideGateway

\* the loop ended without a listening gateway: startClawdbotGateway runs
\* tail -20 on the log, startOpenClawGateway does not; both return false
ChecksExhausted ==
    /\ gwPc = "check"
    /\ gwCheck >= GatewayChecks
    /\ gwLogFetched' = (gwKind = "clawdbot")
    /\ gwResult' = "false"
    /\ gwPc' = "done"
    /\ UNCHANGED <<gwSawProcess, gwSawPort, gwWaits>>
    /\ UNCHANGED <<gwKind, oldGateway, newGateway, portOwner, oldAtStart,
                   gwCheck, isRunning>>
    /\ UNCHANGED OutsideGateway

\* the machine: a signalled gateway exits and frees the port
OldGatewayExits ==
    /\ oldGateway = "stopping"
    /\ oldGateway' = "none"
    /\ portOwner' = PortWithoutOld
    /\ UNCHANGED <<gwKind, gwPc, newGateway, oldAtStart, gwCheck, isRunning,
                   gwResult>>
    /\ UNCHANGED <<gwSawProcess, gwSawPort, gwWaits, gwLogFetched>>
    /\ UNCHANGED OutsideGateway

\* the machine: the started gateway binds the port if it is free, and exits
\* if it is taken or if the gateway fails to come up
NewGatewaySettles ==
    /\ newGateway = "starting"
    /\ \E fate \in {"listening", "exited"} :
        /\ fate = "listening" => portOwner = "none"
        /\ newGateway' = fate
        /\ portOwner' = IF fate = "listening" THEN "new" ELSE portOwner
    /\ UNCHANGED <<gwKind, gwPc, oldGateway, oldAtStart, gwCheck, isRunning,
                   gwResult>>
    /\ UNCHANGED <<gwSawProcess, gwSawPort, gwWaits, gwLogFetched>>
    /\ UNCHANGED OutsideGateway

(***************************************************************************)
(* The configuration run: installPython, installAnthropicSDK,              *)
(* installClawdbot, setupClawdbotTelegram, then the gateway start          *)
(***************************************************************************)

\* let retries = 5
MaxTries == 5

\* the tries a command takes when its first n tries fail
TriesAfter(n) == IF n < MaxTries THEN n + 1 ELSE MaxTries

\* installPython: waitForVMReady, the four cloud-init commands, then
\* apt-get update and apt-get install, each tried up to five times.  Nothing
\* is looked up on the machine before the commands are sent.
InstallPython ==
    /\ setupPc = "python"
    /\ \E vmReady \in BOOLEAN, failsUpdate \in 0..MaxTries, failsInstall \in 0..MaxTries :
         LET updated == failsUpdate < MaxTries
             installed == updated /\ failsInstall < MaxTries
         IN  IF ~vmReady
             THEN /\ setupPc' = "failed"
                  /\ UNCHANGED <<commandsSent, pythonInstalled, installsRepeated>>
             ELSE /\ commandsSent' = commandsSent + 4 + TriesAfter(failsUpdate)
                                     + (IF updated THEN TriesAfter(failsInstall) ELSE 0)
                  /\ installsRepeated' = installsRepeated + (IF pythonInstalled THEN 1 ELSE 0)
                  /\ pythonInstalled' = (pythonInstalled \/ installed)
                  /\ setupPc' = IF installed THEN "sdk" ELSE "failed"
    /\ UNCHANGED <<runNo, nodeInstalled, clawdbotVersion, latestVersion, configWrites>>
    /\ UNCHANGED OutsideSetup

\* installAnthropicSDK: pip3 install and the import check; returns true
\* whatever they answer
InstallAnthropicSDK ==
    /\ setupPc = "sdk"
    /\ commandsSent' = commandsSent + 2
    /\ setupPc' = "clawdbot"
    /\ UNCHANGED <<runNo, pythonInstalled, nodeInstalled, clawdbotVersion,
                   latestVersion, configWrites, installsRepeated>>
    /\ UNCHANGED OutsideSetup

\* installClawdbot: apt-get update, the nvm install script, nvm install 22,
\* npm install -g clawdbot@latest, the version lookup; the first failure
\* after apt-get update ends it.  Nothing is looked up on the machine before
\* the commands are sent, and npm installs what clawdbot@latest resolves to.
InstallClawdbot ==
    /\ setupPc = "clawdbot"
    /\ \E failAt \in {"none", "nvm", "node", "npm"} :
        /\ commandsSent' = commandsSent
                           + (CASE failAt = "nvm" -> 2
                                [] failAt = "node" -> 3
                                [] failAt = "npm" -> 4
                                [] OTHER -> 5)
        /\ nodeInstalled' = (nodeInstalled \/ failAt \in {"npm", "none"})
        /\ clawdbotVersion' = IF failAt = "none" THEN latestVersion ELSE clawdbotVersion
        /\ setupPc' = IF failAt = "none" THEN "configure" ELSE "failed"
    /\ installsRepeated' = installsRepeated + (IF clawdbotVersion > 0 THEN 1 ELSE 0)
    /\ UNCHANGED <<runNo, pythonInstalled, latestVersion, configWrites>>
    /\ UNCHANGED OutsideSetup

\* setupClawdbotTelegram: five commands up to the write of clawdbot.json
\* (with a new token), false when the write fails, then two for .bashrc
ConfigureClawdbot ==
    /\ setupPc = "configure"
    /\ \E written \in BOOLEAN :
         IF written
         THEN /\ configWrites' = configWrites + 1
              /\ commandsSent' = commandsSent + 7
              /\ setupPc' = "gateway"
         ELSE /\ commandsSent' = commandsSent + 5
              /\ setupPc' = "failed"
              /\ UNCHANGED configWrites
    /\ UNCHANGED <<runNo, pythonInstalled, nodeInstalled, clawdbotVersion,
                   latestVersion, installsRepeated>>
    /\ UNCHANGED OutsideSetup

\* step 4: the gateway start, modelled by the actions above
StartGatewayStep ==
    /\ setupPc = "gateway"
    /\ setupPc' = "done"
    /\ UNCHANGED <<runNo, pythonInstalled, nodeInstalled, clawdbotVersion,
                   latestVersion, configWrites, commandsSent, installsRepeated>>
    /\ UNCHANGED OutsideSetup

\* how many runs are made on the machine
MaxRuns == 2

\* The run is interrupted after the configuration was written and is
\* invoked again from the beginning.
InterruptAndReinvoke ==
    /\ setupPc = "gateway"
    /\ runNo < MaxRuns
    /\ runNo' = runNo + 1
    /\ setupPc' = "python"
    /\ commandsSent' = 0
    /\ UNCHANGED <<pythonInstalled, nodeInstalled, clawdbotVersion, latestVersion,
                   configWrites, installsRepeated>>
    /\ UNCHANGED OutsideSetup

\* the newest clawdbot version the registry can come to hold
MaxVersion == 2

\* the registry: a new clawdbot version is published
PublishVersion ==
    /\ latestVersion < MaxVersion
    /\ latestVersion' = latestVersion + 1
    /\ UNCHANGED <<runNo, setupPc, pythonInstalled, nodeInstalled, clawdbotVersion,
                   configWrites, commandsSent, installsRepeated>>
    /\ UNCHANGED OutsideSetup

(***************************************************************************)
(* The SetupState row and the operations that write it                     *)
(***************************************************************************)

\* the step flags of the row
StepFlags ==
    <<"vmCreated", "repoCreated", "repoCloned", "gitSyncConfigured",
      "clawdbotInstalled", "telegramConfigured", "gatewayStarted">>

\* the row an upsert creates: the fields it gives, the rest at their defaults
NewRecord ==
    [status |-> "pending", vmProvider |-> "null",
     awsAccessKeyId |-> FALSE, awsInstanceId |-> FALSE,
     orgoApiKey |-> FALSE, orgoProjectId |-> FALSE,
     orgoComputerId |-> FALSE,
     llmApiKey |-> FALSE, errorMessage |-> FALSE,
     vmCreated |-> FALSE, repoCreated |-> FALSE, repoCloned |-> FALSE,
     gitSyncConfigured |-> FALSE, clawdbotInstalled |-> FALSE,
     telegramConfigured |-> FALSE, gatewayStarted |-> FALSE]

\* the row before the write: the defaults when there is none
Row == IF recExists THEN setupState ELSE NewRecord

\* an operation answers with a status and leaves the row as it is
Answer(op, code) ==
    /\ lastOp' = op
    /\ response' = code
    /\ deleteAnswer' = "none"
    /\ UNCHANGED <<recExists, setupState, envOrgoKey, remoteExists>>

\* an operation writes the row and answers 200
Write(op, row) ==
    /\ lastOp' = op
    /\ response' = 200
    /\ recExists' = TRUE
    /\ setupState' = row
    /\ deleteAnswer' = "none"
    /\ UNCHANGED <<envOrgoKey, remoteExists>>

\* GET /api/setup/status: reads the row
GetStatus ==
    /\ Answer("status", 200)
    /\ UNCHANGED OutsideRecord

\* PUT /api/setup/aws/credentials: upsert of the credentials
PutAwsCredentials ==
    /\ \/ Answer("putAwsCredentials", 400)
       \/ Write("putAwsCredentials", [Row EXCEPT !.awsAccessKeyId = TRUE])
    /\ UNCHANGED OutsideRecord

\* DELETE /api/setup/aws/credentials: update of an existing row
DeleteAwsCredentials ==
    /\ IF recExists
       THEN Write("deleteAwsCredentials",
                  [setupState EXCEPT !.awsAccessKeyId = FALSE,
                                     !.awsInstanceId = FALSE])
       ELSE Answer("deleteAwsCredentials", 500)
    /\ UNCHANGED OutsideRecord

\* POST /api/setup/aws/validate: upsert after the credentials were accepted
ValidateAws ==
    /\ \/ Answer("validateAws", 400)
       \/ Write("validateAws", [Row EXCEPT !.vmProvider = "aws",
                                           !.awsAccessKeyId = TRUE])
    /\ UNCHANGED OutsideRecord

\* the upserts of the managed LLM key (provision route, Stripe webhook,
\* credit provisioning)
StoreLlmKey ==
    /\ \/ Answer("storeLlmKey", 503)
       \/ Write("storeLlmKey", [Row EXCEPT !.llmApiKey = TRUE])
    /\ UNCHANGED OutsideRecord

\* POST /api/setup/auto-provision-vm and the Stripe webhook: upsert of the
\* managed provider and its credentials
AutoProvisionVm ==
    /\ \/ Answer("autoProvisionVm", 403)
       \/ Write("autoProvisionVm", [Row EXCEPT !.vmProvider = "orgo",
                                               !.orgoApiKey = TRUE])
       \/ Write("autoProvisionVm", [Row EXCEPT !.vmProvider = "aws",
                                               !.awsAccessKeyId = TRUE])
    /\ UNCHANGED OutsideRecord

\* POST auto-deploy: after the computer was created, the upsert
AutoDeploy ==
    /\ \/ Answer("autoDeploy", 400)
       \/ Write("autoDeploy", [Row EXCEPT !.orgoApiKey = TRUE,
                                          !.orgoProjectId = TRUE,
                                          !.llmApiKey = TRUE,
                                          !.status = "provisioning"])
    /\ UNCHANGED OutsideRecord

\* a redeploy that starts the row afresh
DeployProDataFresh(row) ==
    [NewRecord EXCEPT !.status = "provisioning", !.vmProvider = "aws",
                      !.awsAccessKeyId = TRUE, !.llmApiKey = row.llmApiKey]

\* the data of deployProVM's update
DeployProData(row) ==
    [row EXCEPT !.status = "provisioning", !.vmProvider = "aws",
                !.awsAccessKeyId = TRUE, !.errorMessage = FALSE]

\* deployProVM: the update of an existing row
DeployPro ==
    /\ IF recExists
       THEN Write("deployPro", DeployProData(setupState))
       ELSE Answer("deployPro", 500)
    /\ UNCHANGED OutsideRecord

\* the data of the reset the delete endpoint writes, for either provider
ResetData(row) ==
    [row EXCEPT !.status = "pending",
                !.awsInstanceId = IF row.vmProvider = "aws" THEN FALSE ELSE @,
                !.orgoProjectId = IF row.vmProvider = "aws" THEN @ ELSE FALSE,
                !.orgoComputerId = IF row.vmProvider = "aws" THEN @ ELSE FALSE,
                !.vmCreated = FALSE, !.repoCreated = FALSE,
                !.repoCloned = FALSE, !.gitSyncConfigured = FALSE,
                !.clawdbotInstalled = FALSE, !.telegramConfigured = FALSE,
                !.gatewayStarted = FALSE, !.errorMessage = FALSE]

\* what the provider can answer to terminateInstance / deleteComputer
DeleteAnswers ==
    IF remoteExists THEN {"deleted", "failed"} ELSE {"notFound", "failed"}

\* the error says the machine is already gone: errorMessage.includes('not
\* found'), 'InvalidInstanceID', '404'
AlreadyGone(answer) == answer = "notFound"

\* no error of the provider's delete is tolerated
DeleteErrorNeverTolerated(answer) == FALSE

\* the catch block around the provider's delete: both of its branches log
\* the error and go on to the reset
DeleteErrorTolerated(answer) == AlreadyGone(answer) \/ answer = "failed"

\* the provider's delete and the reset of the row; an error that leaves the
\* try block reaches the handler's own catch, which answers 500
DeleteAndReset ==
    \E answer \in DeleteAnswers :
        IF answer = "deleted" \/ DeleteErrorTolerated(answer)
        THEN /\ lastOp' = "deleteComputer"
             /\ response' = 200
             /\ recExists' = TRUE
             /\ setupState' = ResetData(Row)
             /\ remoteExists' = (remoteExists /\ answer # "deleted")
             /\ deleteAnswer' = answer
             /\ UNCHANGED envOrgoKey
        ELSE /\ lastOp' = "deleteComputer"
             /\ response' = 500
             /\ remoteExists' = (remoteExists /\ answer # "deleted")
             /\ deleteAnswer' = answer
             /\ UNCHANGED <<recExists, setupState, envOrgoKey>>

\* POST delete computer: 404 without a resource id, 500 without
\* credentials; otherwise the provider's delete, whose failure is logged
\* and tolerated, and the reset
DeleteComputer ==
    /\ IF Row.vmProvider = "aws"
       THEN IF ~Row.awsInstanceId THEN Answer("deleteComputer", 404)
            ELSE IF ~Row.awsAccessKeyId THEN Answer("deleteComputer", 500)
            ELSE DeleteAndReset
       ELSE IF ~Row.orgoComputerId THEN Answer("deleteComputer", 404)
            ELSE IF ~(Row.orgoApiKey \/ envOrgoKey) THEN Answer("deleteComputer", 500)
            ELSE DeleteAndReset
    /\ UNCHANGED OutsideRecord

\* The setup process records the resource it created: its identifier, and
\* the first step flag.
RecordResource ==
    /\ recExists
    /\ setupState.status = "provisioning"
    /\ ~setupState.vmCreated
    /\ lastOp' = "setupProcess"
    /\ response' = 200
    /\ setupState' =
         [setupState EXCEPT !.vmCreated = TRUE,
                            !.awsInstanceId = IF setupState.vmProvider = "aws"
                                              THEN TRUE ELSE @,
                            !.orgoComputerId = IF setupState.vmProvider = "aws"
                                               THEN @ ELSE TRUE]
    /\ remoteExists' = TRUE
    /\ deleteAnswer' = "none"
    /\ UNCHANGED <<recExists, envOrgoKey>>
    /\ UNCHANGED OutsideRecord

\* the provider: the machine goes away without the application (deleted in
\* the provider's console, or by a delete whose answer was lost)
ResourceVanishes ==
    /\ remoteExists
    /\ remoteExists' = FALSE
    /\ UNCHANGED <<recExists, setupState, envOrgoKey, lastOp, response,
                   deleteAnswer>>
    /\ UNCHANGED OutsideRecord

\* The setup process records the next completed step, in step order, and
\* the end of the run with the last one.
RecordStep ==
    /\ recExists
    /\ setupState.status = "provisioning"
    /\ \E i \in 2..Len(StepFlags) :
        /\ setupState[StepFlags[i - 1]]
        /\ ~setupState[StepFlags[i]]
        /\ Write("setupProcess",
                 [setupState EXCEPT ![StepFlags[i]] = TRUE,
                                    !.status = IF i = Len(StepFlags)
                                               THEN "ready" ELSE @])
    /\ UNCHANGED OutsideRecord

\* The setup process records a failure: the message, and no flag.
RecordError ==
    /\ recExists
    /\ setupState.status = "provisioning"
    /\ Write("setupProcess", [setupState EXCEPT !.errorMessage = TRUE])
    /\ UNCHANGED OutsideRecord

(***************************************************************************)
(* OrgoClient.createComputerWithUniqueName (OrgoAdapter has the same body) *)
(***************************************************************************)

\* the answer of a create request that succeeded
Created == <<"created">>

\* the error messages of a create request refused for a name that is taken
DuplicateMessages ==
    {<<"duplicate", "key", "value", "violates", "unique", "constraint">>,
     <<"constraint", "desktops_project_name_unique">>,
     <<"Computer", "already", "exists">>}

\* the error messages of a create request that failed for another reason
OtherCreateErrors ==
    {<<"Project", "not", "found">>,
     <<"Request", "to", "Orgo", "API", "timed", "out">>}

CreateAnswers == {Created} \cup DuplicateMessages \cup OtherCreateErrors

\* a test that takes every error for a name conflict
isAnyError(errorMessage) == TRUE

\* errorMessage.includes('duplicate key') ||
\* errorMessage.includes('desktops_project_name_unique') ||
\* errorMessage.includes('already exists')
isDuplicateNameError(errorMessage) ==
    \/ IncludesPhrase(errorMessage, <<"duplicate", "key">>)
    \/ IncludesWord(errorMessage, "desktops_project_name_unique")
    \/ IncludesPhrase(errorMessage, <<"already", "exists">>)

\* `${uniqueName.substring(0, 50)}-${Date.now()}`
RetryName(name, now) == WithSuffix(Substring0(name, 50), TimestampString(now))

\* The first createComputer, once ensureUniqueComputerName has returned.
\* A name conflict starts the second resolution, for the stamped name, in a
\* project where the other creator's computer may now be listed; any other
\* error is thrown again.
CreateFirst ==
    /\ ccPc = "resolve"
    /\ namePc = "returned"
    /\ \E answer \in CreateAnswers :
        /\ createRequests' = Append(createRequests, uniqueName)
        /\ createAnswers' = Append(createAnswers, answer)
        /\ IF answer = Created
           THEN /\ ccReturned' = TRUE
                /\ ccPc' = "done"
                /\ UNCHANGED <<ccThrown, nameVars>>
           ELSE IF isDuplicateNameError(answer)
           THEN /\ ccPc' = "retryResolve"
                /\ \E now \in dateNow..MaxMillis, fails \in BOOLEAN,
                      seen \in {listing, listing \cup {uniqueName}} :
                     /\ dateNow' = now
                     /\ listFails' = fails
                     /\ listing' = seen
                     /\ desiredName' = RetryName(uniqueName, now)
                /\ namePc' = "call"
                /\ UNCHANGED <<ccReturned, ccThrown, projectLookup,
                               existingNames, counter, uniqueName>>
           ELSE /\ ccThrown' = answer
                /\ ccPc' = "done"
                /\ UNCHANGED <<ccReturned, nameVars>>
    /\ UNCHANGED OutsideCreateComputer

\* The second createComputer, once the second resolution has returned: its
\* result is the result of the call, whatever it is.
CreateRetry ==
    /\ ccPc = "retryResolve"
    /\ namePc = "returned"
    /\ \E answer \in CreateAnswers :
        /\ createRequests' = Append(createRequests, uniqueName)
        /\ createAnswers' = Append(createAnswers, answer)
        /\ ccReturned' = (answer = Created)
        /\ ccThrown' = IF answer = Created THEN NoError ELSE answer
    /\ ccPc' = "done"
    /\ UNCHANGED nameVars
    /\ UNCHANGED OutsideCreateComputer

(***************************************************************************)
(* OrgoClient.request (OrgoAdapter.request has the same body)              *)
(***************************************************************************)

\* const timeoutMs = timeoutOverrideMs || 60000
DefaultTimeoutMs == 60000

timeoutMs == IF timeoutOverrideMs = 0 THEN DefaultTimeoutMs ELSE timeoutOverrideMs

\* the per-call overrides: none, a shorter and a longer one
TimeoutOverrides == {0, 30000, 120000}

\* the grain of the clock
TickMs == 10000

\* how long the clock is followed
MaxClockMs == 150000

\* fetch resolves with the status line and headers; clearTimeout(timeoutId)
HeadersArrive ==
    /\ reqPc = "fetch"
    /\ \E ok \in BOOLEAN : responseOk' = ok
    /\ timerArmed' = FALSE
    /\ reqPc' = "body"
    /\ UNCHANGED <<timeoutOverrideMs, reqClock, reqOutcome>>
    /\ UNCHANGED OutsideRequest

\* fetch, or the reading of the body, rejects with a network error: the
\* catch clears the timer and throws it again, as a time-out if its code is
\* ETIMEDOUT
TransferFails ==
    /\ reqPc \in {"fetch", "body"}
    /\ \E code \in {"ECONNRESET", "ETIMEDOUT"} :
         reqOutcome' = IF code = "ETIMEDOUT" THEN "timedOut" ELSE "networkError"
    /\ timerArmed' = FALSE
    /\ reqPc' = "done"
    /\ UNCHANGED <<timeoutOverrideMs, responseOk, reqClock>>
    /\ UNCHANGED OutsideRequest

\* the timer fires: controller.abort() rejects the pending operation with an
\* AbortError, which the catch turns into the time-out error
TimerFires ==
    /\ reqPc \in {"fetch", "body"}
    /\ timerArmed
    /\ reqClock >= timeoutMs
    /\ reqOutcome' = "timedOut"
    /\ timerArmed' = FALSE
    /\ reqPc' = "done"
    /\ UNCHANGED <<timeoutOverrideMs, responseOk, reqClock>>
    /\ UNCHANGED OutsideRequest

\* response.text() resolves: the provider's error is thrown if the response
\* is not ok, the parsed body is returned otherwise
BodyArrives ==
    /\ reqPc = "body"
    /\ reqOutcome' = IF responseOk THEN "returned" ELSE "providerError"
    /\ reqPc' = "done"
    /\ UNCHANGED <<timeoutOverrideMs, timerArmed, responseOk, reqClock>>
    /\ UNCHANGED OutsideRequest

\* time passes while the request is pending; an armed timer fires when it is
\* due, so time does not pass beyond it
TimePasses ==
    /\ reqPc \in {"fetch", "body"}
    /\ reqClock + TickMs <= MaxClockMs
    /\ ~(timerArmed /\ reqClock >= timeoutMs)
    /\ reqClock' = reqClock + TickMs
    /\ UNCHANGED <<timeoutOverrideMs, reqPc, timerArmed, responseOk, reqOutcome>>
    /\ UNCHANGED OutsideRequest

(***************************************************************************)
(* Computer identifiers in API paths: OrgoClient.normalizeComputerId and   *)
(* the computer operations of OrgoClient and OrgoAdapter                   *)
(***************************************************************************)

\* 'orgo-'
OrgoPrefix == <<"o", "r", "g", "o", "-">>

\* String.prototype.startsWith
StartsWith(s, prefix) ==
    Len(s) >= Len(prefix) /\ SubSeq(s, 1, Len(prefix)) = prefix

\* String.prototype.slice(n)
Slice(s, n) == SubSeq(s, n + 1, Len(s))

\* computerId.startsWith('orgo-') ? computerId.slice(5) : computerId
normalizeComputerId(id) ==
    IF StartsWith(id, OrgoPrefix) THEN Slice(id, 5) ELSE id

ComputerOperations ==
    {"getComputer", "startComputer", "stopComputer", "restartComputer",
     "deleteComputer", "bash", "exec", "screenshot"}

\* what follows the identifier in the path of an operation
OperationSuffix(op) ==
    CASE op = "startComputer" -> <<"/", "start">>
      [] op = "stopComputer" -> <<"/", "stop">>
      [] op = "restartComputer" -> <<"/", "restart">>
      [] op = "bash" -> <<"/", "bash">>
      [] op = "exec" -> <<"/", "exec">>
      [] op = "screenshot" -> <<"/", "screenshot">>
      [] OTHER -> <<>>

\* the endpoint an operation of a client passes to request: OrgoClient puts
\* normalizeComputerId(computerId) into the path, OrgoAdapter puts computerId
ApiPath(client, op, id) ==
    <<"/", "computers", "/">>
    \o (IF client = "OrgoClient" THEN normalizeComputerId(id) ELSE id)
    \o OperationSuffix(op)

NoPath == <<>>

\* the operation is called with X
CallWithPlainId ==
    /\ idClient # "none"
    /\ pathPlain = NoPath
    /\ pathPlain' = ApiPath(idClient, idOperation, computerId)
    /\ UNCHANGED <<idClient, idOperation, computerId, pathPrefixed>>
    /\ UNCHANGED OutsideIds

\* the operation is called with "orgo-" + X
CallWithPrefixedId ==
    /\ idClient # "none"
    /\ pathPrefixed = NoPath
    /\ pathPrefixed' = ApiPath(idClient, idOperation, OrgoPrefix \o computerId)
    /\ UNCHANGED <<idClient, idOperation, computerId, pathPlain>>
    /\ UNCHANGED OutsideIds

\* Identifiers: raw ones, one that spells the provider's name, and one that
\* carries the prefix itself.
ComputerIds ==
    {<<"a", "b", "1">>,
     <<"7", "f", "3", "c">>,
     <<"o", "r", "g", "o">>,
     <<"o", "r", "g", "o", "-", "a", "b", "1">>}

(***************************************************************************)
(* The write of the configuration document in setupClawdbotTelegram and    *)
(* setupOpenClawTelegram: echo '<base64>' | base64 -d > <path>             *)
(***************************************************************************)

\* the longest document, in blocks written by base64
MaxBlocks == 3

\* the configuration documents written one after another on a machine
MaxDocuments == 3

\* the document of one version, as the blocks base64 -d writes
Document(version, blocks) == [k \in 1..blocks |-> <<version, k>>]

NoDocument == <<>>

\* the version a document belongs to, 0 for none
VersionOf(doc) == IF doc = NoDocument THEN 0 ELSE doc[1][1]

\* the remote shell opens the target of "> path" for writing, creating or
\* truncating it, before the pipeline runs
OpenRedirect ==
    /\ cfgPc = "start"
    /\ fileExists' = TRUE
    /\ fileContent' = NoDocument
    /\ cfgPc' = "open"
    /\ UNCHANGED <<cfgStep, previousDocument, newDocument>>
    /\ UNCHANGED OutsideConfig

\* base64 -d writes the next block of the decoded document
WriteBlock ==
    /\ cfgPc = "open"
    /\ Len(fileContent) < Len(newDocument)
    /\ fileContent' = Append(fileContent, newDocument[Len(fileContent) + 1])
    /\ UNCHANGED <<cfgStep, cfgPc, fileExists, previousDocument, newDocument>>
    /\ UNCHANGED OutsideConfig

\* the pipeline ends and runCommand returns success
WriteConfigDone ==
    /\ cfgPc = "open"
    /\ fileContent = newDocument
    /\ cfgPc' = "written"
    /\ UNCHANGED <<cfgStep, fileExists, fileContent, previousDocument,
                   newDocument>>
    /\ UNCHANGED OutsideConfig

\* the machine crashes or the connection is lost while the command runs:
\* the pipeline is ended where it is and the step returns false
WriteConfigInterrupted ==
    /\ cfgPc \in {"start", "open"}
    /\ cfgPc' = "lost"
    /\ UNCHANGED <<cfgStep, fileExists, fileContent, previousDocument,
                   newDocument>>
    /\ UNCHANGED OutsideConfig

\* a later run of the setup writes the next document over the one written
WriteConfigAgain ==
    /\ cfgPc = "written"
    /\ VersionOf(newDocument) < MaxDocuments
    /\ previousDocument' = fileContent
    /\ \E blocks \in 1..MaxBlocks :
           newDocument' = Document(VersionOf(newDocument) + 1, blocks)
    /\ cfgPc' = "start"
    /\ UNCHANGED <<cfgStep, fileExists, fileContent>>
    /\ UNCHANGED OutsideConfig

(***************************************************************************)
(* POST deploy (Pro) and deployProVM                                       *)
(***************************************************************************)

\* the deploy requests of one user
DeployRequests == {1, 2}

\* how awsClient.createInstance can fail: the credentials are rejected or
\* lack a permission, or the image stays inaccessible after the one retry
CreateFailures == {"credentials", "image"}

\* the request passes the session and Pro checks
DeployArrives(r) ==
    /\ dpPc[r] = "idle"
    /\ dpPc' = [dpPc EXCEPT ![r] = "check"]
    /\ UNCHANGED <<dpStatus, dpErrorMessage, dpVmRows, dpLaunched, dpFailure,
                   dpResponse>>
    /\ UNCHANGED OutsideDeploy

\* prisma.vM.findFirst over the live statuses: an existing VM is returned
CheckExistingVM(r) ==
    /\ dpPc[r] = "check"
    /\ IF dpVmRows > 0
       THEN /\ dpPc' = [dpPc EXCEPT ![r] = "done"]
            /\ dpResponse' = [dpResponse EXCEPT ![r] = "existing"]
       ELSE /\ dpPc' = [dpPc EXCEPT ![r] = "update"]
            /\ UNCHANGED dpResponse
    /\ UNCHANGED <<dpStatus, dpErrorMessage, dpVmRows, dpLaunched, dpFailure>>
    /\ UNCHANGED OutsideDeploy

\* deployProVM up to the update of the setup state: without a credit
\* account it throws before the update
UpdateSetupState(r) ==
    /\ dpPc[r] = "update"
    /\ \/ /\ dpPc' = [dpPc EXCEPT ![r] = "done"]
          /\ dpResponse' = [dpResponse EXCEPT ![r] = "500"]
          /\ UNCHANGED <<dpStatus, dpErrorMessage>>
       \/ /\ dpStatus' = "provisioning"
          /\ dpErrorMessage' = FALSE
          /\ dpPc' = [dpPc EXCEPT ![r] = "create"]
          /\ UNCHANGED dpResponse
    /\ UNCHANGED <<dpVmRows, dpLaunched, dpFailure>>
    /\ UNCHANGED OutsideDeploy

\* awsClient.createInstance: it launches the instance, or throws and the
\* catch blocks of deployProVM and of the route answer 500
CreateProInstance(r) ==
    /\ dpPc[r] = "create"
    /\ \/ /\ dpLaunched' = dpLaunched + 1
          /\ dpPc' = [dpPc EXCEPT ![r] = "record"]
          /\ UNCHANGED <<dpFailure, dpResponse>>
       \/ \E failure \in CreateFailures :
              /\ dpFailure' = [dpFailure EXCEPT ![r] = failure]
              /\ dpPc' = [dpPc EXCEPT ![r] = "done"]
              /\ dpResponse' = [dpResponse EXCEPT ![r] = "500"]
              /\ UNCHANGED dpLaunched
    /\ UNCHANGED <<dpStatus, dpErrorMessage, dpVmRows>>
    /\ UNCHANGED OutsideDeploy

\* prisma.vM.create, the start of the setup process and the answer
CreateVmRecord(r) ==
    /\ dpPc[r] = "record"
    /\ dpVmRows' = dpVmRows + 1
    /\ dpPc' = [dpPc EXCEPT ![r] = "done"]
    /\ dpResponse' = [dpResponse EXCEPT ![r] = "started"]
    /\ UNCHANGED <<dpStatus, dpErrorMessage, dpLaunched, dpFailure>>
    /\ UNCHANGED OutsideDeploy

(***************************************************************************)
(* AWSClient.getOrCreateSecurityGroup in two concurrent createInstance     *)
(* runs on one account                                                     *)
(***************************************************************************)

\* the concurrent runs
GroupRuns == {1, 2}

NoGroupError == "none"

\* the provider's rejection of a second group of the same name
DuplicateGroupError == "InvalidGroup.Duplicate"

\* the run's getOrCreateSecurityGroup throws and createInstance with it
GroupThrow(r, error) ==
    /\ sgPc' = [sgPc EXCEPT ![r] = "threw"]
    /\ sgThrown' = [sgThrown EXCEPT ![r] = error]

\* DescribeSecurityGroups by name: a group found is returned; none found,
\* or an error, which is swallowed, leads to the creation
DescribeGroup(r) ==
    /\ sgPc[r] = "describe"
    /\ \E answered \in BOOLEAN :
         IF answered /\ groupExists
         THEN sgPc' = [sgPc EXCEPT ![r] = "launch"]
         ELSE sgPc' = [sgPc EXCEPT ![r] = "vpc"]
    /\ UNCHANGED <<groupExists, groupRules, sgRejected, sgThrown>>
    /\ UNCHANGED OutsideGroup

\* DescribeVpcs: without a default VPC the run throws
DescribeVpc(r) ==
    /\ sgPc[r] = "vpc"
    /\ \/ /\ sgPc' = [sgPc EXCEPT ![r] = "create"]
          /\ UNCHANGED sgThrown
       \/ GroupThrow(r, "No default VPC found")
    /\ UNCHANGED <<groupExists, groupRules, sgRejected>>
    /\ UNCHANGED OutsideGroup

\* CreateSecurityGroup, outside any try block: the provider rejects the call
\* when the name is taken, and the rejection leaves the function
CreateGroup(r) ==
    /\ sgPc[r] = "create"
    /\ IF groupExists
       THEN /\ sgRejected' = [sgRejected EXCEPT ![r] = TRUE]
            /\ GroupThrow(r, DuplicateGroupError)
            /\ UNCHANGED groupExists
       ELSE /\ groupExists' = TRUE
            /\ sgPc' = [sgPc EXCEPT ![r] = "authorize"]
            /\ UNCHANGED <<sgRejected, sgThrown>>
    /\ UNCHANGED groupRules
    /\ UNCHANGED OutsideGroup

\* AuthorizeSecurityGroupIngress, then the group id is returned
AuthorizeIngress(r) ==
    /\ sgPc[r] = "authorize"
    /\ \/ /\ groupRules' = TRUE
          /\ sgPc' = [sgPc EXCEPT ![r] = "launch"]
          /\ UNCHANGED sgThrown
       \/ /\ GroupThrow(r, "RequestLimitExceeded")
          /\ UNCHANGED groupRules
    /\ UNCHANGED <<groupExists, sgRejected>>
    /\ UNCHANGED OutsideGroup

\* createInstance goes on with the group id: key pair and launch, which
\* succeed or throw
LaunchWithGroup(r) ==
    /\ sgPc[r] = "launch"
    /\ \/ /\ sgPc' = [sgPc EXCEPT ![r] = "launched"]
          /\ UNCHANGED sgThrown
       \/ GroupThrow(r, "InstanceLimitExceeded")
    /\ UNCHANGED <<groupExists, groupRules, sgRejected>>
    /\ UNCHANGED OutsideGroup

(***************************************************************************)
(* The setup operations that write the shell profile and the sync job:     *)
(* setupClawdbotTelegram (bashrc block), storeClaudeKey, setupGitSync      *)
(***************************************************************************)

\* the operations run on one machine
MaxSetupOps == 3

\* const envExports, one word for each line
ClawdbotBlock ==
    <<"# Clawdbot configuration", "export NVM_DIR", "nvm.sh",
      "export LLM_KEY", "export TELEGRAM_BOT_TOKEN">>

\* const bashrcAdditions = '\n' + envExports.join('\n') + '\n'
bashrcAdditions == <<"">> \o ClawdbotBlock \o <<"">>

\* the line storeClaudeKey echoes
AnthropicKeyLine == "export ANTHROPIC_API_KEY"

\* the line of the sync job
CronLine == "* * * * * /home/ubuntu/sync-vault.sh"

\* sed -i '/^# Clawdbot configuration$/,/^export TELEGRAM_BOT_TOKEN=/d':
\* the lines from one that matches the first address to the next one that
\* matches the second are deleted
RECURSIVE SedDeleteRange(_, _)
SedDeleteRange(lines, inRange) ==
    IF lines = <<>>
    THEN <<>>
    ELSE LET line == Head(lines)
             rest == SubSeq(lines, 2, Len(lines))
         IN  IF inRange
             THEN SedDeleteRange(rest, line # "export TELEGRAM_BOT_TOKEN")
             ELSE IF line = "# Clawdbot configuration"
             THEN SedDeleteRange(rest, TRUE)
             ELSE <<line>> \o SedDeleteRange(rest, FALSE)

\* grep -v "sync-vault.sh"
RECURSIVE GrepOutSync(_)
GrepOutSync(lines) ==
    IF lines = <<>>
    THEN <<>>
    ELSE (IF Head(lines) = CronLine THEN <<>> ELSE <<Head(lines)>>)
         \o GrepOutSync(SubSeq(lines, 2, Len(lines)))

\* the lines of the profile that are not blank
RECURSIVE Entries(_)
Entries(lines) ==
    IF lines = <<>>
    THEN <<>>
    ELSE (IF Head(lines) = "" THEN <<>> ELSE <<Head(lines)>>)
         \o Entries(SubSeq(lines, 2, Len(lines)))

\* what an operation leaves behind: profile entries, jobs, processes
Machine(profile, jobs, daemons) ==
    [profile |-> Entries(profile), crontab |-> jobs, daemons |-> daemons]

\* the bookkeeping of a run of op that leaves the machine as given
RunRecorded(op, profile, jobs, daemons) ==
    /\ opsRun < MaxSetupOps
    /\ opsRun' = opsRun + 1
    /\ setupOp' = op
    /\ runsInARow' = IF setupOp = op THEN runsInARow + 1 ELSE 1
    /\ afterOnce' = IF setupOp = op THEN afterOnce
                    ELSE Machine(profile, jobs, daemons)

\* setupClawdbotTelegram: the sed that removes the block, then cat >> of it
ConfigureEnvironment ==
    /\ bashrc' = SedDeleteRange(bashrc, FALSE) \o bashrcAdditions
    /\ RunRecorded("configureEnvironment", bashrc', crontab, syncDaemons)
    /\ UNCHANGED <<crontab, cronWorks, syncDaemons>>
    /\ UNCHANGED OutsideMachine

\* storeClaudeKey: echo '...' >> ~/.bashrc
StoreClaudeKey ==
    /\ bashrc' = Append(bashrc, AnthropicKeyLine)
    /\ RunRecorded("storeClaudeKey", bashrc', crontab, syncDaemons)
    /\ UNCHANGED <<crontab, cronWorks, syncDaemons>>
    /\ UNCHANGED OutsideMachine

\* setupGitSync: the crontab without its sync line plus the sync line; when
\* crontab fails, a daemon is started with nohup
SetupGitSync ==
    /\ IF cronWorks
       THEN /\ crontab' = Append(GrepOutSync(crontab), CronLine)
            /\ UNCHANGED syncDaemons
       ELSE /\ syncDaemons' = syncDaemons + 1
            /\ UNCHANGED crontab
    /\ RunRecorded("setupGitSync", bashrc, crontab', syncDaemons')
    /\ UNCHANGED <<bashrc, cronWorks>>
    /\ UNCHANGED OutsideMachine

(***************************************************************************)
(* The gateway token: runCommand('openssl rand -hex n') and                *)
(* tokenResult.output.trim() || 'fallback-token-' + Date.now()             *)
(***************************************************************************)

HexDigits ==
    {"0", "1", "2", "3", "4", "5", "6", "7", "8", "9",
     "a", "b", "c", "d", "e", "f"}

\* white space that trim removes
WhiteSpace == {" ", "\n"}

\* the outputs of openssl rand -hex, cut to their first characters, with
\* the newline openssl prints
RandomHexOutputs ==
    {<<"3", "f", "a", "9", "\n">>, <<"0", "0", "c", "4", "\n">>,
     <<"d", "e", "7", "1", "\n">>, <<"b", "2", "5", "e", "\n">>}

\* what a failing command prints on standard error
CommandErrorOutputs ==
    {<<"b", "a", "s", "h", ":", " ", "o", "p", "e", "n", "s", "s", "l", ":",
       " ", "n", "o", "t", " ", "f", "o", "u", "n", "d", "\n">>,
     <<"c", "a", "n", "'", "t", " ", "l", "o", "a", "d", " ", "R", "N", "G",
       "\n">>}

\* the messages runCommand returns as output when no attempt ran the command
ConnectionErrorOutputs ==
    {<<"S", "S", "H", " ", "c", "o", "n", "n", "e", "c", "t", "i", "o", "n",
       " ", "f", "a", "i", "l", "e", "d">>,
     <<"N", "o", "t", " ", "c", "o", "n", "n", "e", "c", "t", "e", "d">>}

\* a command that prints nothing, or white space only
EmptyOutputs == {<<>>, <<"\n">>}

\* the results of the token command, by its outcome
TokenResults ==
    [outcome : {"success"}, output : RandomHexOutputs, success : {TRUE}]
    \cup [outcome : {"failure"}, output : CommandErrorOutputs,
          success : {FALSE}]
    \cup [outcome : {"empty"}, output : EmptyOutputs, success : BOOLEAN]
    \cup [outcome : {"connection"}, output : ConnectionErrorOutputs,
          success : {FALSE}]

\* Date.now() at the call, as digits
Timestamps == {<<"1", "7", "9">>, <<"1", "8", "0">>}

\* String.prototype.trim
RECURSIVE TrimStart(_)
TrimStart(s) ==
    IF s # <<>> /\ Head(s) \in WhiteSpace
    THEN TrimStart(SubSeq(s, 2, Len(s)))
    ELSE s

RECURSIVE TrimEnd(_)
TrimEnd(s) ==
    IF s # <<>> /\ s[Len(s)] \in WhiteSpace
    THEN TrimEnd(SubSeq(s, 1, Len(s) - 1))
    ELSE s

Trim(s) == TrimEnd(TrimStart(s))

\* 'fallback-token-' + Date.now()
FallbackToken(now) ==
    <<"f", "a", "l", "l", "b", "a", "c", "k", "-", "t", "o", "k", "e", "n",
      "-">> \o now

\* tokenResult.output.trim() || 'fallback-token-' + Date.now()
TokenOf(result, now) ==
    IF Trim(result.output) # <<>> THEN Trim(result.output)
    ELSE FallbackToken(now)

\* the token command returns and the token is computed
GenerateToken ==
    /\ tkPc = "generate"
    /\ gatewayToken' = TokenOf(tokenResult, tkNow)
    /\ tkPc' = "write"
    /\ UNCHANGED <<tkStep, tokenResult, tkNow, configToken>>
    /\ UNCHANGED OutsideToken

\* the configuration document is written with "token": "${gatewayToken}"
WriteTokenToConfig ==
    /\ tkPc = "write"
    /\ configToken' = gatewayToken
    /\ tkPc' = "done"
    /\ UNCHANGED <<tkStep, tokenResult, tkNow, gatewayToken>>
    /\ UNCHANGED OutsideToken

(***************************************************************************)
(* Initial states and specifications                                       *)
(***************************************************************************)

InitName ==
    /\ desiredName \in DesiredNames
    /\ \/ /\ listing \in SparseListings(desiredName)
          /\ dateNow = 0
          /\ projectLookup \in ProjectLookups
       \/ /\ desiredName \in DenseNames
          /\ listing \in DenseListings(desiredName)
          /\ dateNow \in 0..MaxMillis
          /\ projectLookup = ProjectListed
    /\ listFails \in BOOLEAN
    /\ namePc = "call"
    /\ existingNames = {}
    /\ counter = 0
    /\ uniqueName = NoName

\* the name resolution before any call
IdleName ==
    /\ desiredName = Bot
    /\ listing = {}
    /\ listFails = FALSE
    /\ projectLookup = ProjectListed
    /\ dateNow = 0
    /\ namePc = "idle"
    /\ existingNames = {}
    /\ counter = 0
    /\ uniqueName = NoName

NextName == BeginEnsureUnique \/ LoopIteration \/ FinishEnsureUnique

\* the largest attempt budget tried besides the default
MaxBudget == 12

InitWait ==
    /\ maxAttempts \in (0..MaxBudget) \cup {DefaultMaxAttempts}
    /\ wfPc = "grace"
    /\ wfI = 0
    /\ lastError = NoError
    /\ consecutiveNotFoundErrors = 0
    /\ wfResult = "pending"
    /\ wfThrown = NoError
    /\ wfClock = 0
    /\ wfQueries = 0
    /\ wfFirstQueryAt = -1
    /\ wfNotFound = 0
    /\ wfOnlyNotFound = TRUE
    /\ wfLastStatus = "none"
    /\ wfRun = 0

\* waitForReady before any call
IdleWait ==
    /\ maxAttempts = 0
    /\ wfPc = "idle"
    /\ wfI = 0
    /\ lastError = NoError
    /\ consecutiveNotFoundErrors = 0
    /\ wfResult = "pending"
    /\ wfThrown = NoError
    /\ wfClock = 0
    /\ wfQueries = 0
    /\ wfFirstQueryAt = -1
    /\ wfNotFound = 0
    /\ wfOnlyNotFound = TRUE
    /\ wfLastStatus = "none"
    /\ wfRun = 0

NextWait == WaitGrace \/ PollStatus \/ SleepInterval \/ AttemptsExhausted

\* the locals of createInstance before the call
IdleCreate ==
    /\ ciPc = "idle"
    /\ preShareCalls = 0
    /\ postShareCalls = 0
    /\ runCalls = 0
    /\ launchError = NoEc2Error
    /\ ciResult = "pending"
    /\ ciThrown = NoEc2Error
    /\ cleanupCalls = 0
    /\ cleanupDone = FALSE

\* the locals of terminateInstanceWithCleanup before the call
IdleTerminate ==
    /\ tcPc = "idle"
    /\ tcCall = 0
    /\ keyName = NoKey
    /\ terminated = FALSE
    /\ keyPairDeleted = FALSE
    /\ errors = <<>>
    /\ tcLookup = "none"
    /\ tcTerminate = "none"
    /\ tcDelete = "none"

\* an account with no instance of this client
IdleEc2 ==
    /\ customAmiId = FALSE
    /\ adminCredentials = FALSE
    /\ amiShared = FALSE
    /\ wasShared = FALSE
    /\ keyPairs = {}
    /\ instanceState = "none"
    /\ instanceKeyName = NoKey
    /\ IdleCreate
    /\ IdleTerminate

\* createInstance is called: with or without a custom image, with or
\* without admin credentials, the image shared or not, in an account that
\* may hold key pairs
InitCreate ==
    /\ customAmiId \in BOOLEAN
    /\ adminCredentials \in BOOLEAN
    /\ amiShared \in BOOLEAN
    /\ wasShared = amiShared
    /\ keyPairs \in SUBSET {NewKey, OtherKey}
    /\ instanceState = "none"
    /\ instanceKeyName = NoKey
    /\ ciPc = "share"
    /\ preShareCalls = 0
    /\ postShareCalls = 0
    /\ runCalls = 0
    /\ launchError = NoEc2Error
    /\ ciResult = "pending"
    /\ ciThrown = NoEc2Error
    /\ cleanupCalls = 0
    /\ cleanupDone = FALSE
    /\ IdleTerminate

NextCreate ==
    \/ PreLaunchShare
    \/ PrepareLaunch
    \/ Launch
    \/ RetryShare
    \/ RetryLaunch
    \/ CleanupKeyPair
    \/ AwaitRunning

\* terminateInstanceWithCleanup is called on an instance id: the instance is
\* running, already terminated or unknown, was launched with a key pair or
\* without, and the key pair exists or not
InitTerminate ==
    /\ customAmiId = FALSE
    /\ adminCredentials = FALSE
    /\ amiShared = FALSE
    /\ wasShared = FALSE
    /\ keyPairs \in SUBSET {NewKey, OtherKey}
    /\ instanceState \in {"running", "terminated", "none"}
    /\ instanceKeyName \in (IF instanceState = "none" THEN {NoKey}
                            ELSE {NewKey, NoKey})
    /\ IdleCreate
    /\ tcPc = "lookup"
    /\ tcCall = 1
    /\ keyName = NoKey
    /\ terminated = FALSE
    /\ keyPairDeleted = FALSE
    /\ errors = <<>>
    /\ tcLookup = "none"
    /\ tcTerminate = "none"
    /\ tcDelete = "none"

NextTerminate == TcLookup \/ TcTerminate \/ TcDeleteKey \/ TcCallAgain

\* runCommand is called: connected or not, with or without a client object
\* and an address
InitRun ==
    /\ retries \in 0..MaxRetries
    /\ rcPc = "attempt"
    /\ attempt = 0
    /\ sshConnected \in BOOLEAN
    /\ sshClient \in (IF sshConnected THEN {TRUE} ELSE BOOLEAN)
    /\ publicIp \in (IF sshClient THEN {TRUE} ELSE BOOLEAN)
    /\ rcHistory = <<>>
    /\ rcWaits = <<>>
    /\ rcClock = 0
    /\ rcOutput = <<>>
    /\ rcSuccess = FALSE
    /\ rcCalls = 1
    /\ connection = (IF sshClient THEN 1 ELSE 0)
    /\ rcConns = <<>>
    /\ erroredConnections = {}
    /\ closedConnections = {}
    /\ ranOnErrored = FALSE

\* the executor after construction
IdleSsh ==
    /\ retries = DefaultRetries
    /\ rcPc = "idle"
    /\ attempt = 0
    /\ sshConnected = FALSE
    /\ sshClient = FALSE
    /\ publicIp = FALSE
    /\ rcHistory = <<>>
    /\ rcWaits = <<>>
    /\ rcClock = 0
    /\ rcOutput = <<>>
    /\ rcSuccess = FALSE
    /\ rcCalls = 0
    /\ connection = 0
    /\ rcConns = <<>>
    /\ erroredConnections = {}
    /\ closedConnections = {}
    /\ ranOnErrored = FALSE

NextRun == Attempt \/ Backoff \/ RunNextCommand

\* a call of either gateway start, on a machine with or without a gateway
InitGateway ==
    /\ gwKind \in {"clawdbot", "openclaw"}
    /\ gwPc = "prepare"
    /\ oldGateway \in {"none", "running"}
    /\ newGateway = "none"
    /\ portOwner = IF oldGateway = "running" THEN "old" ELSE "none"
    /\ oldAtStart = "unset"
    /\ gwCheck = 0
    /\ isRunning = FALSE
    /\ gwResult = "pending"
    /\ gwSawProcess = FALSE
    /\ gwSawPort = FALSE
    /\ gwWaits = 0
    /\ gwLogFetched = FALSE

\* no gateway start in progress
IdleGateway ==
    /\ gwKind = "clawdbot"
    /\ gwPc = "done"
    /\ oldGateway = "none"
    /\ newGateway = "none"
    /\ portOwner = "none"
    /\ oldAtStart = "unset"
    /\ gwCheck = 0
    /\ isRunning = FALSE
    /\ gwResult = "pending"
    /\ gwSawProcess = FALSE
    /\ gwSawPort = FALSE
    /\ gwWaits = 0
    /\ gwLogFetched = FALSE

NextGateway ==
    \/ WriteStartupScript
    \/ KillExistingGateway
    \/ StartGatewayProcess
    \/ CheckProcessAndPort
    \/ GetHomeDirectory
    \/ ComposeDown
    \/ ComposeUp
    \/ CheckPort
    \/ ChecksExhausted
    \/ OldGatewayExits
    \/ NewGatewaySettles

\* the first configuration run on a new machine
InitSetup ==
    /\ runNo = 1
    /\ setupPc = "python"
    /\ pythonInstalled = FALSE
    /\ nodeInstalled = FALSE
    /\ clawdbotVersion = 0
    /\ latestVersion = 1
    /\ configWrites = 0
    /\ commandsSent = 0
    /\ installsRepeated = 0

\* no configuration run in progress
IdleSetup ==
    /\ runNo = 1
    /\ setupPc = "done"
    /\ pythonInstalled = FALSE
    /\ nodeInstalled = FALSE
    /\ clawdbotVersion = 0
    /\ latestVersion = 1
    /\ configWrites = 0
    /\ commandsSent = 0
    /\ installsRepeated = 0

NextSetup ==
    \/ InstallPython
    \/ InstallAnthropicSDK
    \/ InstallClawdbot
    \/ ConfigureClawdbot
    \/ StartGatewayStep
    \/ InterruptAndReinvoke
    \/ PublishVersion

\* a user without a row
InitRecord ==
    /\ recExists = FALSE
    /\ setupState = NewRecord
    /\ envOrgoKey \in BOOLEAN
    /\ lastOp = "none"
    /\ response = 0
    /\ remoteExists = FALSE
    /\ deleteAnswer = "none"

\* no row, nothing run
IdleRecord ==
    /\ recExists = FALSE
    /\ setupState = NewRecord
    /\ envOrgoKey = FALSE
    /\ lastOp = "none"
    /\ response = 0
    /\ remoteExists = FALSE
    /\ deleteAnswer = "none"

NextRecord ==
    \/ GetStatus
    \/ PutAwsCredentials
    \/ DeleteAwsCredentials
    \/ ValidateAws
    \/ StoreLlmKey
    \/ AutoProvisionVm
    \/ AutoDeploy
    \/ DeployPro
    \/ DeleteComputer
    \/ RecordResource
    \/ RecordStep
    \/ RecordError
    \/ ResourceVanishes

\* a call of createComputerWithUniqueName in a project with a sparse listing
InitCreateComputer ==
    /\ desiredName \in DesiredNames
    /\ listing \in SparseListings(desiredName)
    /\ dateNow = 0
    /\ listFails \in BOOLEAN
    /\ projectLookup = ProjectListed
    /\ namePc = "call"
    /\ existingNames = {}
    /\ counter = 0
    /\ uniqueName = NoName
    /\ ccPc = "resolve"
    /\ createRequests = <<>>
    /\ createAnswers = <<>>
    /\ ccReturned = FALSE
    /\ ccThrown = NoError

\* no call of createComputerWithUniqueName
IdleCreateComputer ==
    /\ ccPc = "idle"
    /\ createRequests = <<>>
    /\ createAnswers = <<>>
    /\ ccReturned = FALSE
    /\ ccThrown = NoError

NextCreateComputer ==
    \/ BeginEnsureUnique
    \/ LoopIteration
    \/ FinishEnsureUnique
    \/ CreateFirst
    \/ CreateRetry

\* a request has been sent: the timer is set, fetch is pending
InitRequest ==
    /\ timeoutOverrideMs \in TimeoutOverrides
    /\ reqPc = "fetch"
    /\ timerArmed = TRUE
    /\ responseOk = FALSE
    /\ reqClock = 0
    /\ reqOutcome = "pending"

\* no request
IdleRequest ==
    /\ timeoutOverrideMs = 0
    /\ reqPc = "idle"
    /\ timerArmed = FALSE
    /\ responseOk = FALSE
    /\ reqClock = 0
    /\ reqOutcome = "pending"

NextRequest ==
    \/ HeadersArrive
    \/ TransferFails
    \/ TimerFires
    \/ BodyArrives
    \/ TimePasses

\* a computer operation of one of the two clients, about to be called
InitIds ==
    /\ idClient \in {"OrgoClient", "OrgoAdapter"}
    /\ idOperation \in ComputerOperations
    /\ computerId \in ComputerIds
    /\ pathPlain = NoPath
    /\ pathPrefixed = NoPath

\* no operation called
IdleIds ==
    /\ idClient = "none"
    /\ idOperation = "getComputer"
    /\ computerId = <<"a", "b", "1">>
    /\ pathPlain = NoPath
    /\ pathPrefixed = NoPath

NextIds == CallWithPlainId \/ CallWithPrefixedId

\* the write step of either setup begins, on a machine with no configuration
\* document or with the one of an earlier setup
InitConfig ==
    /\ cfgStep \in {"clawdbot", "openclaw"}
    /\ cfgPc = "start"
    /\ fileExists \in BOOLEAN
    /\ previousDocument \in
           (IF fileExists
            THEN {Document(1, blocks) : blocks \in 1..MaxBlocks}
            ELSE {NoDocument})
    /\ fileContent = previousDocument
    /\ \E blocks \in 1..MaxBlocks :
           newDocument = Document(VersionOf(previousDocument) + 1, blocks)

\* no configuration written
IdleConfig ==
    /\ cfgStep = "none"
    /\ cfgPc = "idle"
    /\ fileExists = FALSE
    /\ fileContent = NoDocument
    /\ previousDocument = NoDocument
    /\ newDocument = NoDocument

NextConfig ==
    \/ OpenRedirect
    \/ WriteBlock
    \/ WriteConfigDone
    \/ WriteConfigInterrupted
    \/ WriteConfigAgain

\* a Pro user with a setup state, with or without a live VM, before the
\* deploy requests
InitDeploy ==
    /\ dpPc = [r \in DeployRequests |-> "idle"]
    /\ dpStatus \in {"pending", "ready", "failed"}
    /\ dpErrorMessage = (dpStatus = "failed")
    /\ dpVmRows \in {0, 1}
    /\ dpLaunched = 0
    /\ dpFailure = [r \in DeployRequests |-> "none"]
    /\ dpResponse = [r \in DeployRequests |-> "none"]

\* no deploy request
IdleDeploy ==
    /\ dpPc = [r \in DeployRequests |-> "off"]
    /\ dpStatus = "pending"
    /\ dpErrorMessage = FALSE
    /\ dpVmRows = 0
    /\ dpLaunched = 0
    /\ dpFailure = [r \in DeployRequests |-> "none"]
    /\ dpResponse = [r \in DeployRequests |-> "none"]

NextDeploy ==
    \E r \in DeployRequests :
        \/ DeployArrives(r)
        \/ CheckExistingVM(r)
        \/ UpdateSetupState(r)
        \/ CreateProInstance(r)
        \/ CreateVmRecord(r)

\* two createInstance runs reach getOrCreateSecurityGroup on an account
\* with or without the group
InitGroup ==
    /\ sgPc = [r \in GroupRuns |-> "describe"]
    /\ groupExists \in BOOLEAN
    /\ groupRules = groupExists
    /\ sgRejected = [r \in GroupRuns |-> FALSE]
    /\ sgThrown = [r \in GroupRuns |-> NoGroupError]

\* no run
IdleGroup ==
    /\ sgPc = [r \in GroupRuns |-> "off"]
    /\ groupExists = FALSE
    /\ groupRules = FALSE
    /\ sgRejected = [r \in GroupRuns |-> FALSE]
    /\ sgThrown = [r \in GroupRuns |-> NoGroupError]

NextGroup ==
    \E r \in GroupRuns :
        \/ DescribeGroup(r)
        \/ DescribeVpc(r)
        \/ CreateGroup(r)
        \/ AuthorizeIngress(r)
        \/ LaunchWithGroup(r)

\* a machine before the setup operations: a profile and a crontab of the
\* image, with or without a working cron
InitMachine ==
    /\ bashrc \in {<<>>, <<"alias ll">>, <<"alias ll", "">>}
    /\ crontab \in {<<>>, <<"@daily backup">>}
    /\ cronWorks \in BOOLEAN
    /\ syncDaemons = 0
    /\ setupOp = "none"
    /\ opsRun = 0
    /\ runsInARow = 0
    /\ afterOnce = Machine(bashrc, crontab, syncDaemons)

\* no operation run
IdleMachine ==
    /\ bashrc = <<>>
    /\ crontab = <<>>
    /\ cronWorks = TRUE
    /\ syncDaemons = 0
    /\ setupOp = "off"
    /\ opsRun = MaxSetupOps
    /\ runsInARow = 0
    /\ afterOnce = Machine(<<>>, <<>>, 0)

NextMachine == ConfigureEnvironment \/ StoreClaudeKey \/ SetupGitSync

\* either setup reaches the token command, which ends in one of its ways
InitToken ==
    /\ tkStep \in {"clawdbot", "openclaw"}
    /\ tkPc = "generate"
    /\ tokenResult \in TokenResults
    /\ tkNow \in Timestamps
    /\ gatewayToken = <<>>
    /\ configToken = <<>>

\* no setup
IdleToken ==
    /\ tkStep = "none"
    /\ tkPc = "idle"
    /\ tokenResult = [outcome |-> "empty", output |-> <<>>, success |-> FALSE]
    /\ tkNow = <<"1", "7", "9">>
    /\ gatewayToken = <<>>
    /\ configToken = <<>>

NextToken == GenerateToken \/ WriteTokenToConfig

StartName == InitName /\ IdleWait /\ IdleEc2 /\ IdleSsh /\ IdleGateway
    /\ IdleSetup /\ IdleRecord /\ IdleCreateComputer /\ IdleRequest
    /\ IdleIds /\ IdleConfig /\ IdleDeploy /\ IdleGroup /\ IdleMachine
    /\ IdleToken
StartWait == InitWait /\ IdleName /\ IdleEc2 /\ IdleSsh /\ IdleGateway
    /\ IdleSetup /\ IdleRecord /\ IdleCreateComputer /\ IdleRequest
    /\ IdleIds /\ IdleConfig /\ IdleDeploy /\ IdleGroup /\ IdleMachine
    /\ IdleToken
StartCreate == InitCreate /\ IdleName /\ IdleWait /\ IdleSsh
    /\ IdleGateway /\ IdleSetup /\ IdleRecord /\ IdleCreateComputer
    /\ IdleRequest /\ IdleIds /\ IdleConfig /\ IdleDeploy /\ IdleGroup
    /\ IdleMachine /\ IdleToken
StartTerminate == InitTerminate /\ IdleName /\ IdleWait /\ IdleSsh
    /\ IdleGateway /\ IdleSetup /\ IdleRecord /\ IdleCreateComputer
    /\ IdleRequest /\ IdleIds /\ IdleConfig /\ IdleDeploy /\ IdleGroup
    /\ IdleMachine /\ IdleToken
StartRun == InitRun /\ IdleName /\ IdleWait /\ IdleEc2 /\ IdleGateway
    /\ IdleSetup /\ IdleRecord /\ IdleCreateComputer /\ IdleRequest
    /\ IdleIds /\ IdleConfig /\ IdleDeploy /\ IdleGroup /\ IdleMachine
    /\ IdleToken
StartGateway == InitGateway /\ IdleName /\ IdleWait /\ IdleEc2
    /\ IdleSsh /\ IdleSetup /\ IdleRecord /\ IdleCreateComputer
    /\ IdleRequest /\ IdleIds /\ IdleConfig /\ IdleDeploy /\ IdleGroup
    /\ IdleMachine /\ IdleToken
StartSetup == InitSetup /\ IdleName /\ IdleWait /\ IdleEc2 /\ IdleSsh
    /\ IdleGateway /\ IdleRecord /\ IdleCreateComputer /\ IdleRequest
    /\ IdleIds /\ IdleConfig /\ IdleDeploy /\ IdleGroup /\ IdleMachine
    /\ IdleToken
StartRecord == InitRecord /\ IdleName /\ IdleWait /\ IdleEc2 /\ IdleSsh
    /\ IdleGateway /\ IdleSetup /\ IdleCreateComputer /\ IdleRequest
    /\ IdleIds /\ IdleConfig /\ IdleDeploy /\ IdleGroup /\ IdleMachine
    /\ IdleToken
StartCreateComputer == InitCreateComputer /\ IdleWait /\ IdleEc2
    /\ IdleSsh /\ IdleGateway /\ IdleSetup /\ IdleRecord /\ IdleRequest
    /\ IdleIds /\ IdleConfig /\ IdleDeploy /\ IdleGroup /\ IdleMachine
    /\ IdleToken
StartRequest == InitRequest /\ IdleName /\ IdleWait /\ IdleEc2
    /\ IdleSsh /\ IdleGateway /\ IdleSetup /\ IdleRecord
    /\ IdleCreateComputer /\ IdleIds /\ IdleConfig /\ IdleDeploy
    /\ IdleGroup /\ IdleMachine /\ IdleToken
StartIds == InitIds /\ IdleName /\ IdleWait /\ IdleEc2 /\ IdleSsh
    /\ IdleGateway /\ IdleSetup /\ IdleRecord /\ IdleCreateComputer
    /\ IdleRequest /\ IdleConfig /\ IdleDeploy /\ IdleGroup /\ IdleMachine
    /\ IdleToken
StartConfig == InitConfig /\ IdleName /\ IdleWait /\ IdleEc2 /\ IdleSsh
    /\ IdleGateway /\ IdleSetup /\ IdleRecord /\ IdleCreateComputer
    /\ IdleRequest /\ IdleIds /\ IdleDeploy /\ IdleGroup /\ IdleMachine
    /\ IdleToken
StartDeploy == InitDeploy /\ IdleName /\ IdleWait /\ IdleEc2 /\ IdleSsh
    /\ IdleGateway /\ IdleSetup /\ IdleRecord /\ IdleCreateComputer
    /\ IdleRequest /\ IdleIds /\ IdleConfig /\ IdleGroup /\ IdleMachine
    /\ IdleToken
StartGroup == InitGroup /\ IdleName /\ IdleWait /\ IdleEc2 /\ IdleSsh
    /\ IdleGateway /\ IdleSetup /\ IdleRecord /\ IdleCreateComputer
    /\ IdleRequest /\ IdleIds /\ IdleConfig /\ IdleDeploy /\ IdleMachine
    /\ IdleToken
StartMachine == InitMachine /\ IdleName /\ IdleWait /\ IdleEc2
    /\ IdleSsh /\ IdleGateway /\ IdleSetup /\ IdleRecord
    /\ IdleCreateComputer /\ IdleRequest /\ IdleIds /\ IdleConfig
    /\ IdleDeploy /\ IdleGroup /\ IdleToken
StartToken == InitToken /\ IdleName /\ IdleWait /\ IdleEc2 /\ IdleSsh
    /\ IdleGateway /\ IdleSetup /\ IdleRecord /\ IdleCreateComputer
    /\ IdleRequest /\ IdleIds /\ IdleConfig /\ IdleDeploy /\ IdleGroup
    /\ IdleMachine

\* ensureUniqueComputerName alone
SpecName == StartName /\ [][NextName]_vars

\* waitForReady alone
SpecWait == StartWait /\ [][NextWait]_vars

\* createInstance alone
SpecCreate == StartCreate /\ [][NextCreate]_vars

\* terminateInstanceWithCleanup, called MaxCalls times in a row
SpecTerminate == StartTerminate /\ [][NextTerminate]_vars

\* runCommand alone
SpecRun == StartRun /\ [][NextRun]_vars

\* the gateway starts
SpecGateway == StartGateway /\ [][NextGateway]_vars

\* the configuration runs on one machine
SpecSetup == StartSetup /\ [][NextSetup]_vars

\* the operations on one user's SetupState row
SpecRecord == StartRecord /\ [][NextRecord]_vars

\* createComputerWithUniqueName with the name resolutions it calls
SpecCreateComputer == StartCreateComputer /\ [][NextCreateComputer]_vars

\* one API request
SpecRequest == StartRequest /\ [][NextRequest]_vars

\* the paths of the computer operations
SpecIds == StartIds /\ [][NextIds]_vars

\* the write of the configuration document
SpecConfig == StartConfig /\ [][NextConfig]_vars

\* the deploy requests of one user
SpecDeploy == StartDeploy /\ [][NextDeploy]_vars

\* two concurrent runs of getOrCreateSecurityGroup
SpecGroup == StartGroup /\ [][NextGroup]_vars

\* the setup operations on one machine
SpecMachine == StartMachine /\ [][NextMachine]_vars

\* the gateway token from the command to the configuration document
SpecToken == StartToken /\ [][NextToken]_vars

(***************************************************************************)
(* Properties of ensureUniqueComputerName                                  *)
(***************************************************************************)

\* the project was looked up and its computers were listed
ListingObtained == ~getProjectNameThrows(projectLookup) /\ ~listFails

\* the listing was obtained and holds the desired name, in some case
Collides ==
    /\ ListingObtained
    /\ \E n \in listing : ToLowerCase(n) = ToLowerCase(desiredName)

\* the k in 1..999 for which Form(k) is not a name of the listing
FreeSuffixes(Form(_)) ==
    LET lower == {ToLowerCase(n) : n \in listing}
    IN  {k \in 1..(CounterLimit - 1) : ToLowerCase(Form(k)) \notin lower}

Least(S) == CHOOSE k \in S : \A j \in S : k <= j

\* `${desiredName}-${k}`
Numbered(k) == WithSuffix(desiredName, Decimal(k))

\* `${desiredName}-1` for 1, `${baseName}-${k}` after
Truncated(k) == CandidateName(desiredName, k)

\* C1: for every listing that holds the desired name D (compared without
\* case), the returned name differs from every name of the listing and is
\* not D.
C1_ReturnedNameIsFresh ==
    (namePc = "returned" /\ Collides) =>
        /\ \A n \in listing : ToLowerCase(n) # ToLowerCase(uniqueName)
        /\ uniqueName # desiredName

\* C2 as stated: on a collision the call returns D-k for the least k in
\* 1..999 such that D-k is not in the listing.
C2_ReturnsLeastNumbered ==
    (namePc = "returned" /\ Collides /\ FreeSuffixes(Numbered) # {}) =>
        uniqueName = Numbered(Least(FreeSuffixes(Numbered)))

\* C2 amended: on a collision the call returns D-1 if that is free, and
\* otherwise B-k for the least k in 2..999 such that B-k is free, B being
\* the first 58 characters of D; for a D of at most 58 characters that is
\* D-k for the least free k, and "bot" with {"bot", "bot-1"} gives "bot-2".
C2_ReturnsLeastTruncated ==
    /\ (namePc = "returned" /\ Collides /\ FreeSuffixes(Truncated) # {}) =>
            uniqueName = Truncated(Least(FreeSuffixes(Truncated)))
    /\ (namePc = "returned" /\ Collides /\ FreeSuffixes(Truncated) # {}
            /\ Len(desiredName) <= maxBaseLength) =>
            uniqueName = Numbered(Least(FreeSuffixes(Numbered)))
    /\ (namePc = "returned" /\ ListingObtained /\ desiredName = Bot
            /\ listing = {Bot, Numbered(1)}) =>
            uniqueName = <<"b", "o", "t", "-", "2">>

\* "bot" in a project holding "bot" and "bot-1" came back as "bot-2"
C2_Witness ==
    /\ namePc = "returned"
    /\ ListingObtained
    /\ desiredName = Bot
    /\ listing = {Bot, Numbered(1)}
    /\ uniqueName = Numbered(2)

\* C30: for every desired name of at most 63 characters, the name that
\* ensureUniqueComputerName returns has at most 63 characters, whether it is
\* the desired name unchanged, a numbered name or a name with the timestamp.
C30_ReturnedNameWithinLimit ==
    (namePc = "returned" /\ Len(desiredName) <= NameLimit) =>
        Len(uniqueName) <= NameLimit

\* C16: when the project lookup or the computer listing fails inside
\* ensureUniqueComputerName, the call returns, and what it returns is the
\* desired name unchanged.
C16_FailureReturnsDesiredName ==
    (namePc # "call" /\ ~ListingObtained) =>
        /\ namePc = "returned"
        /\ uniqueName = desiredName

\* a call whose project lookup threw, for a desired name the project
\* holds, returned the desired name
C16_Witness ==
    /\ namePc = "returned"
    /\ getProjectNameThrows(projectLookup)
    /\ ~listFails
    /\ desiredName \in listing
    /\ uniqueName = desiredName

(***************************************************************************)
(* Properties of OrgoClient.waitForReady                                   *)
(***************************************************************************)

FailedToCreate == <<"failed", "to", "create">>

\* no status query was issued before the grace delay had elapsed
NoQueryBeforeGrace == wfQueries > 0 => wfFirstQueryAt >= GraceMs

\* C3 as stated: when every status query answers not-found, the call fails,
\* for every attempt budget, with an error containing "failed to create",
\* after at most maxAttempts not-found responses and with no query before
\* the grace delay.
C3_FailedToCreateForEveryBudget ==
    (wfPc = "done" /\ wfOnlyNotFound /\ maxAttempts >= 1) =>
        /\ wfResult = "threw"
        /\ IncludesPhrase(wfThrown, FailedToCreate)
        /\ wfNotFound <= maxAttempts
        /\ NoQueryBeforeGrace

\* C3 amended: when every status query answers not-found the call fails
\* after at most maxAttempts not-found responses and queries nothing before
\* the 3 s grace delay; with a budget above MAX_NOT_FOUND_RETRIES (10) the
\* error contains "failed to create" and is raised at the 11th not-found
\* response; with a budget of 1..10 the error is the provider's last
\* not-found error, raised after maxAttempts responses; with a budget of 0
\* nothing is queried and the error is the not-ready one.
C3_FailedToCreateBeyondThreshold ==
    /\ NoQueryBeforeGrace
    /\ (wfPc = "done" /\ wfOnlyNotFound) =>
        /\ wfResult = "threw"
        /\ wfNotFound <= maxAttempts
        /\ maxAttempts > MAX_NOT_FOUND_RETRIES =>
            /\ IncludesPhrase(wfThrown, FailedToCreate)
            /\ wfNotFound = MAX_NOT_FOUND_RETRIES + 1
        /\ (maxAttempts >= 1 /\ maxAttempts <= MAX_NOT_FOUND_RETRIES) =>
            /\ wfThrown \in NotFoundMessages
            /\ ~IncludesPhrase(wfThrown, FailedToCreate)
            /\ wfNotFound = maxAttempts
        /\ maxAttempts = 0 =>
            /\ wfThrown = NotReadyMessage
            /\ wfQueries = 0

\* the default budget, eleven not-found answers in a row, "failed to create"
C3_Witness ==
    /\ wfPc = "done"
    /\ wfOnlyNotFound
    /\ maxAttempts = DefaultMaxAttempts
    /\ wfNotFound = MAX_NOT_FOUND_RETRIES + 1
    /\ wfFirstQueryAt = GraceMs
    /\ IncludesPhrase(wfThrown, FailedToCreate)

(***************************************************************************)
(* Properties of AWSClient.terminateInstanceWithCleanup                    *)
(***************************************************************************)

\* the call has returned its result value
TcReturned == tcPc = "done"

\* 1 for a request that failed, 0 otherwise
Failed(answer) == IF answer \in {"failed", "RequestLimitExceeded"} THEN 1 ELSE 0

\* C4 as stated: the call never raises, and a second call right after a
\* first reports keyPairDeleted = true and terminated = true.
C4_SecondCallReportsBoth ==
    (TcReturned /\ tcCall = 2) => (terminated /\ keyPairDeleted)

\* C4 amended: every call, a second one included, returns a result value
\* and collects the failures in errors; terminated is true exactly when the
\* TerminateInstances request of the call succeeded; keyPairDeleted is true
\* exactly when the lookup returned a key name and DeleteKeyPair succeeded
\* or answered InvalidKeyPair.NotFound, and the key pair is absent then; a
\* second call in which the lookup returns the key name and no request
\* fails reports both as true, with no error.
C4_ReportsWhatTheProviderAnswered ==
    /\ tcPc \in {"lookup", "terminate", "deleteKey", "done"}
    /\ TcReturned =>
        /\ terminated <=> tcTerminate = "ok"
        /\ keyPairDeleted <=>
            /\ tcLookup = "found"
            /\ instanceKeyName # NoKey
            /\ tcDelete \in {"ok", "InvalidKeyPair.NotFound"}
        /\ keyPairDeleted => instanceKeyName \notin keyPairs
        /\ Len(errors) = Failed(tcLookup) + Failed(tcTerminate) + Failed(tcDelete)
        /\ (/\ tcCall >= 2
            /\ tcLookup = "found"
            /\ instanceKeyName # NoKey
            /\ tcTerminate = "ok"
            /\ tcDelete # "RequestLimitExceeded") =>
                (terminated /\ keyPairDeleted /\ errors = <<>>)

\* a second call found the key pair already absent and the instance
\* terminated, and reported both
C4_Witness ==
    /\ TcReturned
    /\ tcCall = 2
    /\ tcDelete = "InvalidKeyPair.NotFound"
    /\ terminated
    /\ keyPairDeleted
    /\ errors = <<>>

\* the not-found responses were promoted to the terminal failure
PromotedToFailure == wfPc = "done" /\ wfThrown = FailedToCreateMessage

\* C23: during waitForReady a not-found response is tolerated and polling
\* goes on; not-found is promoted to a terminal failure only after more
\* than 10 consecutive not-found responses, a run that any other response
\* in between (a successful status fetch or a different error) ends.
C23_PromotedOnlyAfterConsecutiveRun ==
    /\ PromotedToFailure => wfRun > MAX_NOT_FOUND_RETRIES
    /\ (wfPc = "sleep" /\ wfLastStatus = "error") =>
           wfRun <= MAX_NOT_FOUND_RETRIES

(***************************************************************************)
(* Properties of AWSClient.createInstance                                  *)
(***************************************************************************)

\* the call is over and used a custom image that was not shared
UnsharedImageCallDone == ciPc = "done" /\ customAmiId /\ ~wasShared

\* C8 as stated: in a call with a custom image that is not yet shared,
\* shareAMIWithAccount is invoked exactly once and RunInstances is sent at
\* most twice.
C8_SharedExactlyOnce ==
    UnsharedImageCallDone =>
        /\ preShareCalls + postShareCalls = 1
        /\ runCalls <= 2

\* C8 amended: in such a call shareAMIWithAccount is invoked at most twice,
\* at most once before the launch and at most once after a launch that was
\* refused as not authorized, and never without admin credentials;
\* RunInstances is sent at most twice, the second time only after such a
\* refusal and a grant call that returned.
C8_SharedAtMostOncePerLaunch ==
    /\ preShareCalls <= 1
    /\ postShareCalls <= 1
    /\ runCalls <= 2
    /\ ~adminCredentials => (preShareCalls = 0 /\ postShareCalls = 0 /\ runCalls <= 1)
    /\ postShareCalls = 1 => (runCalls >= 1 /\ launchError = NotAuthorizedError)
    /\ runCalls = 2 => (postShareCalls = 1 /\ amiShared)
    /\ ~customAmiId => (preShareCalls = 0 /\ postShareCalls = 0)

\* a call whose grant before the launch failed, whose launch was refused,
\* and whose second grant and second launch succeeded
C8_Witness ==
    /\ UnsharedImageCallDone
    /\ ciResult = "returned"
    /\ preShareCalls = 1
    /\ postShareCalls = 1
    /\ runCalls = 2

\* the launch failed for another reason than the image not being authorized
\* and the error has reached the caller
OtherLaunchFailureThrown ==
    /\ ciPc = "done"
    /\ ciResult = "threw"
    /\ launchError # NoEc2Error
    /\ launchError # NotAuthorizedError

\* C9 as stated: when the launch fails for another reason than the image
\* not being authorized, the key pair created in this call is deleted before
\* the error reaches the caller, and that error is the original launch error.
C9_KeyPairDeletedBeforeError ==
    OtherLaunchFailureThrown =>
        /\ NewKey \notin keyPairs
        /\ ciThrown = launchError

\* C9 amended: in that case createInstance sends exactly one DeleteKeyPair
\* request for the key pair it created before the error reaches the caller;
\* the key pair is gone when the request succeeds and is still there when
\* it fails, a failure that is swallowed; the error that reaches the caller
\* is the original launch error, after one launch and no retry.
C9_CleanupRequestedBeforeError ==
    OtherLaunchFailureThrown =>
        /\ cleanupCalls = 1
        /\ cleanupDone <=> NewKey \notin keyPairs
        /\ ciThrown = launchError
        /\ runCalls = 1
        /\ postShareCalls = 0

\* a launch refused for the instance limit: the key pair is gone and the
\* caller has the launch error
C9_Witness ==
    /\ OtherLaunchFailureThrown
    /\ launchError.Code = "InstanceLimitExceeded"
    /\ cleanupDone
    /\ NewKey \notin keyPairs
    /\ ciThrown = launchError

\* createInstance threw after createKeyPair had created the key pair
ThrewWithKeyPairCreated ==
    /\ ciPc = "done"
    /\ ciResult = "threw"
    /\ ciThrown \notin {SecurityGroupError, KeyPairError}

\* C29: createInstance leaves no orphaned key pair: whenever it raises after
\* its key pair was created (image not authorized and no admin credentials,
\* sharing or retried launch failed, subnet lookup failed, wait for running
\* failed), the key pair created in this call has been deleted.
C29_NoOrphanedKeyPair ==
    ThrewWithKeyPairCreated => NewKey \notin keyPairs

(***************************************************************************)
(* Properties of AWSVMSetup.runCommand                                     *)
(***************************************************************************)

\* the attempt failed to connect
ConnectionRefused(met) == met.kind = "connect"

\* the call is over: two failed connections, then the command ran with
\* exit status 0
TwoRefusalsThenSuccess ==
    /\ rcPc = "done"
    /\ retries = DefaultRetries
    /\ Len(rcHistory) = 3
    /\ ConnectionRefused(rcHistory[1])
    /\ ConnectionRefused(rcHistory[2])
    /\ rcHistory[3].kind = "exit"
    /\ rcHistory[3].code = 0

\* C5: a runCommand call with the default retries whose first two attempts
\* fail to connect and whose third runs the command with exit status 0
\* returns success = true with the command's output, having waited 5 s
\* after the first failure and 10 s after the second, the second wait
\* longer than the first, and no wait after the success.
C5_BackoffThenSuccess ==
    TwoRefusalsThenSuccess =>
        /\ rcSuccess
        /\ rcOutput = CommandOutput
        /\ rcWaits = <<5000, 10000>>
        /\ rcWaits[1] < rcWaits[2]
        /\ rcClock = 15000

\* two refused connections, then the command's output
C5_Witness ==
    /\ TwoRefusalsThenSuccess
    /\ IncludesWord(rcHistory[1].message, "ECONNREFUSED")
    /\ IncludesWord(rcHistory[2].message, "ECONNREFUSED")
    /\ rcSuccess
    /\ Len(rcWaits) = 2

\* the attempt failed because of the connection and not of the command: the
\* connection could not be made, or the client had lost it
ConnectionLevel(met) ==
    \/ met.kind = "connect"
    \/ /\ met.kind = "exec"
       /\ met.message \in {<<"Not", "connected">>,
                           <<"No", "response", "from", "server">>}

\* C18: whenever an attempt of runCommand fails with a connection-level
\* error and attempts remain, the executor closes the connection, waits and
\* opens a new connection before it executes the command again; a call
\* makes at most retries + 1 attempts; and no command is ever executed on a
\* connection that has reported an error.
C18_ReconnectsBeforeRetry ==
    /\ Len(rcHistory) <= retries + 1
    /\ ~ranOnErrored
    /\ \A i \in 1..Len(rcHistory) :
          (ConnectionLevel(rcHistory[i]) /\ i <= retries) =>
              /\ rcConns[i] \in closedConnections
              /\ (i = Len(rcHistory) => rcPc # "done")
              /\ (i < Len(rcHistory) =>
                     /\ Len(rcWaits) >= i
                     /\ rcConns[i + 1] > rcConns[i])

\* what the last attempt of the call met
LastAttempt == rcHistory[Len(rcHistory)]

\* C19: runCommand reports success = true if and only if the remote command
\* ended with exit status 0; a command that ended with another status or
\* without a status is reported with success = false; and the output
\* returned for a command that ran is what it wrote to standard output and
\* standard error.
C19_SuccessIffExitZero ==
    (rcPc = "done") =>
        /\ rcSuccess = (LastAttempt.kind = "exit" /\ LastAttempt.code = 0)
        /\ (LastAttempt.kind = "exit" => rcOutput = CommandOutput)

(***************************************************************************)
(* Properties of the gateway start                                         *)
(***************************************************************************)

\* C6: in every execution of startClawdbotGateway and startOpenClawGateway,
\* whatever the remote commands answer, the existing gateway has been
\* stopped by the time the start command is issued, and at most one gateway
\* listens on port 18789.
C6_StoppedBeforeStart ==
    /\ oldAtStart \in {"unset", "none"}
    /\ Listeners <= 1

(***************************************************************************)
(* Properties of the configuration run                                     *)
(***************************************************************************)

\* C7: a run invoked again after an interruption that followed the write of
\* the configuration repeats no install on a machine that has it, sends no
\* command for steps 1 to 3, leaves the configuration written once, and is
\* at the gateway start.
C7_RerunGoesStraightToGateway ==
    (runNo > 1 /\ setupPc # "python") =>
        /\ setupPc \in {"gateway", "done"}
        /\ installsRepeated = 0
        /\ commandsSent = 0
        /\ configWrites = 1

(***************************************************************************)
(* Properties of the SetupState row                                        *)
(***************************************************************************)

\* some step flag is true before the step and false after it
FlagFalls ==
    \E i \in 1..Len(StepFlags) :
        /\ recExists
        /\ setupState[StepFlags[i]]
        /\ ~setupState'[StepFlags[i]]

\* C10: over every sequence of operations on the row, a step flag that is
\* true becomes false only in a step of the delete-computer operation that
\* wrote its reset.
C10_FlagsFallOnlyOnTeardown ==
    [][FlagFalls => (lastOp' = "deleteComputer" /\ response' = 200)]_vars

\* a row with every step flag true has been written by an upsert of
\* credentials and by a deploy request, and read
C10_Witness ==
    /\ recExists
    /\ \A i \in 1..Len(StepFlags) : setupState[StepFlags[i]]
    /\ lastOp \in {"putAwsCredentials", "deployPro", "autoDeploy", "status"}
    /\ response = 200

\* the delete-computer operation has just written its reset
ResetDone == lastOp = "deleteComputer" /\ response = 200

\* C11: after the delete-computer operation has written its reset, for
\* either provider, every step flag of the row is false, every resource
\* identifier of both providers is cleared, the error message is cleared and
\* the status is pending.
C11_ResetClearsEverything ==
    ResetDone =>
        /\ \A i \in 1..Len(StepFlags) : ~setupState[StepFlags[i]]
        /\ ~setupState.awsInstanceId
        /\ ~setupState.orgoProjectId
        /\ ~setupState.orgoComputerId
        /\ ~setupState.errorMessage
        /\ setupState.status = "pending"

\* the operation that ran last is a delete-computer whose provider said the
\* machine was not found
GoneReported == lastOp = "deleteComputer" /\ deleteAnswer = "notFound"

\* a step of the delete-computer operation on a row that the previous
\* operation, a delete-computer, has reset
DeleteAgain == ResetDone /\ DeleteComputer

\* C12 (as stated): a delete whose provider reports the machine as not found
\* answers 200 and resets the row, and a delete invoked again after a
\* successful teardown answers 200 as well.
C12_DeleteAgainSucceeds ==
    /\ [](GoneReported => ResetDone)
    /\ [][DeleteAgain => response' = 200]_vars

\* C12 (amended): a delete whose provider reports the machine as not found
\* answers 200 with the row reset: flags false, status pending, error
\* cleared; a delete invoked again right after a successful teardown finds
\* no resource identifier, answers 404, asks the provider nothing and
\* leaves the row as it is.
C12_GoneIsSuccessAgainIsNotFound ==
    /\ [](GoneReported =>
            /\ ResetDone
            /\ \A i \in 1..Len(StepFlags) : ~setupState[StepFlags[i]]
            /\ setupState.status = "pending"
            /\ ~setupState.errorMessage)
    /\ [][DeleteAgain =>
            /\ response' = 404
            /\ deleteAnswer' = "none"
            /\ setupState' = setupState]_vars

\* the provider answered not found and the delete has reset the row
C12_Witness == GoneReported /\ ResetDone /\ ~remoteExists

\* the last operation was a delete that asked the provider
ProviderAsked == lastOp = "deleteComputer" /\ deleteAnswer # "none"

\* C27: the delete endpoint clears the record's resource identifiers only
\* when the provider resource is gone: after it has reported success the
\* resource has been deleted or was already absent, and when the provider's
\* delete fails for another reason the endpoint does not reset the record.
C27_ClearedOnlyWhenGone ==
    /\ (ProviderAsked /\ response = 200) => ~remoteExists
    /\ (ProviderAsked /\ deleteAnswer = "failed") => response # 200

(***************************************************************************)
(* Properties of createComputerWithUniqueName                              *)
(***************************************************************************)

\* the suffix of length n of a name
Suffix(name, n) == SubSeq(name, Len(name) - n + 1, Len(name))

\* the name ends with "-" and a clock reading, or with that and "-1"
EndsWithTimestamp(name) ==
    \E ms \in 0..MaxMillis :
        LET stamp == <<"-">> \o TimestampString(ms)
        IN  \/ Len(name) >= Len(stamp) /\ Suffix(name, Len(stamp)) = stamp
            \/ /\ Len(name) >= Len(stamp) + 2
               /\ Suffix(name, Len(stamp) + 2) = stamp \o <<"-", "1">>

\* C13: createComputerWithUniqueName sends no create request before the
\* name is resolved and at most two in one call; it sends the second only
\* after the first was answered with a name conflict, and for a name with a
\* timestamp suffix; when the call is over, a first answer that is another
\* error, or a second answer that is any error, is the error thrown, and no
\* further request was sent.
C13_RetriesOnceOnConflict ==
    /\ Len(createRequests) <= 2
    /\ Len(createRequests) = Len(createAnswers)
    /\ (ccPc = "resolve" /\ namePc # "returned") => createRequests = <<>>
    /\ Len(createRequests) = 2 =>
        /\ createAnswers[1] \in DuplicateMessages
        /\ EndsWithTimestamp(createRequests[2])
    /\ ccPc = "done" =>
        /\ Len(createRequests) >= 1
        /\ LET last == createAnswers[Len(createAnswers)]
           IN  /\ ccReturned = (last = Created)
               /\ ccThrown = IF last = Created THEN NoError ELSE last
        /\ (Len(createRequests) = 1) = (createAnswers[1] \notin DuplicateMessages)

\* a call whose first create met a name conflict and whose second create
\* met another one, which it threw
C13_Witness ==
    /\ ccPc = "done"
    /\ Len(createRequests) = 2
    /\ createAnswers[2] \in DuplicateMessages
    /\ ccThrown = createAnswers[2]

(***************************************************************************)
(* Exits of waitForReady                                                   *)
(***************************************************************************)

\* the call returned, and its last query reported the status "running"
ReturnedOnRunning == wfResult = "returned" /\ wfLastStatus = "running"

\* the call threw after it had used its whole attempt budget
BudgetUsed == wfResult = "threw" /\ wfQueries = maxAttempts

\* C14 (as stated): waitForReady returns only when a status query reports
\* "running"; for every other sequence of query outcomes it polls until the
\* attempt budget is used up and then throws "did not become ready in time".
C14_NotReadyOnEveryOtherSequence ==
    /\ wfResult = "returned" => wfLastStatus = "running"
    /\ wfPc = "done" =>
        \/ ReturnedOnRunning
        \/ BudgetUsed /\ wfThrown = NotReadyMessage

\* C14 (amended): waitForReady returns only when a status query reports
\* "running".  Otherwise it throws: "failed to create" as soon as eleven
\* not-found errors have arrived with no successful query between them; or,
\* when the budget is used up, the error of the last query if that query
\* failed and a not-found error has arrived since the last successful
\* query, and "did not become ready in time" in every other case.
C14_RunningIsTheOnlySuccess ==
    /\ wfResult = "returned" => wfLastStatus = "running"
    /\ wfPc = "done" =>
        \/ ReturnedOnRunning
        \/ /\ wfResult = "threw"
           /\ wfThrown = FailedToCreateMessage
           /\ consecutiveNotFoundErrors = MAX_NOT_FOUND_RETRIES + 1
           /\ wfQueries <= maxAttempts
        \/ /\ BudgetUsed
           /\ wfLastStatus = "error"
           /\ consecutiveNotFoundErrors > 0
           /\ wfThrown = lastError
           /\ wfThrown \in NotFoundMessages \cup OtherMessages
        \/ /\ BudgetUsed
           /\ wfLastStatus # "error" \/ consecutiveNotFoundErrors = 0
           /\ wfThrown = NotReadyMessage

\* a call whose queries all found the computer not yet running, and which
\* threw the not-ready error when its budget of several attempts was used up
C14_Witness ==
    /\ wfPc = "done"
    /\ BudgetUsed
    /\ maxAttempts >= 2
    /\ wfLastStatus = "starting"
    /\ wfThrown = NotReadyMessage

(***************************************************************************)
(* Properties of OrgoClient.request                                        *)
(***************************************************************************)

\* C15: no request is pending after its timeout (60 s, or the override) has
\* elapsed, whether it awaits the response or reads its body; a request that
\* is over has returned the response, thrown the provider's error or a
\* network error, or thrown the time-out error.
C15_NeverPendingPastTimeout ==
    /\ reqPc \in {"fetch", "body"} => reqClock <= timeoutMs
    /\ reqPc = "done" =>
        reqOutcome \in {"returned", "providerError", "networkError", "timedOut"}

(***************************************************************************)
(* Properties of the API paths                                             *)
(***************************************************************************)

\* C17: for every identifier X and each computer operation of the hosted-VM
\* client, the path built for X and the path built for "orgo-" + X are the
\* same, and no path contains "orgo-".
C17_SamePathWithOrWithoutPrefix ==
    /\ (pathPlain # NoPath /\ pathPrefixed # NoPath) => pathPlain = pathPrefixed
    /\ ~IncludesPhrase(pathPlain, OrgoPrefix)
    /\ ~IncludesPhrase(pathPrefixed, OrgoPrefix)

\* the verification loop ended and the start returned false
VerificationFailed == gwResult = "false" /\ gwCheck >= GatewayChecks

\* C24: the gateway verification reports success only if a single check
\* observed both the gateway process and port 18789 listening; otherwise it
\* checks at most 5 times with a 5 s wait between the checks, then declares
\* failure, and on failure it fetches the tail of the gateway's log before
\* it returns.
C24_VerifiedOrLogFetched ==
    /\ gwResult = "true" => (gwSawProcess /\ gwSawPort)
    /\ gwCheck <= GatewayChecks
    /\ gwWaits <= GatewayChecks - 1
    /\ VerificationFailed => gwLogFetched

(***************************************************************************)
(* Properties of the configuration write                                   *)
(***************************************************************************)

\* C20: the configuration document is replaced atomically: at every point
\* during and after the write step, a crash or connection loss in the
\* middle of it included, the configuration path holds the complete
\* previous document (or no file, when there was none) or the complete new
\* document, never an empty or partly written one.
C20_ConfigReplacedAtomically ==
    (cfgPc # "idle") =>
        \/ fileExists /\ fileContent = newDocument
        \/ /\ fileExists = (previousDocument # NoDocument)
           /\ fileContent = previousDocument

(***************************************************************************)
(* Properties of the Pro deployment                                        *)
(***************************************************************************)

\* every request that arrived has ended
DeployQuiescent == \A r \in DeployRequests : dpPc[r] \in {"idle", "done"}

\* C21: when provisioning fails because the creation of the resource fails,
\* the failure is written into the record's last-error field and the status
\* is one from which provisioning can be invoked again; once the runs have
\* ended the record is not left with status provisioning and no error.
C21_CreationFailureIsRecorded ==
    (/\ DeployQuiescent
     /\ dpLaunched = 0
     /\ \E r \in DeployRequests : dpFailure[r] # "none") =>
        /\ dpErrorMessage
        /\ dpStatus # "provisioning"

\* C28: for one user the deploy requests launch at most one instance while
\* a deployment is live: a request that arrives while an earlier one is
\* creating its instance, or after a live VM row exists, returns the
\* existing VM and launches nothing.
C28_OneInstancePerUser ==
    /\ dpLaunched <= 1
    /\ dpVmRows <= 1

(***************************************************************************)
(* Properties of the shared security group                                 *)
(***************************************************************************)

\* C22: when two concurrent createInstance runs both find no security group
\* and both issue the creation call, the run whose call the provider rejects
\* as already existing treats the rejection as non-fatal, uses the existing
\* group and goes on to launch its instance.
C22_DuplicateGroupIsNotFatal ==
    \A r \in GroupRuns :
        sgRejected[r] => (sgPc[r] \in {"launch", "launched"}
                          /\ sgThrown[r] = NoGroupError)

(***************************************************************************)
(* Properties of the setup operations                                      *)
(***************************************************************************)

\* C25: every setup operation is idempotent: running the same operation
\* twice in succession leaves the machine as running it once does, with no
\* duplicated profile entry, no second sync job and no additional
\* background process.
C25_SetupOperationsIdempotent ==
    (runsInARow >= 2) => Machine(bashrc, crontab, syncDaemons) = afterOnce

(***************************************************************************)
(* Properties of the gateway token                                         *)
(***************************************************************************)

\* a string of hexadecimal digits
IsHexString(s) == s # <<>> /\ \A i \in 1..Len(s) : s[i] \in HexDigits

\* C26: the gateway token written into the configuration document is a
\* randomly generated hexadecimal string for every outcome of the token
\* command: success, failure with error output, empty output, connection
\* failure.
C26_TokenIsRandomHex ==
    (tkPc = "done") =>
        /\ IsHexString(configToken)
        /\ \E out \in RandomHexOutputs : configToken = Trim(out)

====
